---- MODULE Spec2Model ----
(***************************************************************************)
(* State-machine model of the quokkamesh trust and messaging core:         *)
(* identity (keys.ts), canonical encoding (serialize.ts), the signed task  *)
(* envelope / response protocol (envelope.ts), the tool registry           *)
(* (tools.ts), payload validation (standard-tools.ts) and the Agent        *)
(* orchestrator with its transport (agent.ts, local.ts, libp2p.ts).        *)
(***************************************************************************)
EXTENDS Integers, Sequences, FiniteSets, TLC

(***************************************************************************)
(* Bounds of the model.                                                    *)
(***************************************************************************)
MaxTasks == 2        \* calls to Agent.request over a run
MaxInvocations == 2  \* handler invocations over a run
CertTtlMs == 1000    \* lifetime of the certificates peers present (ms)

(***************************************************************************)
(* The world: two agents, each on its own transport, and an outside peer   *)
(* that crafts its own messages.                                           *)
(***************************************************************************)
Agents == {"A", "B"}
Outsider == "M"
TaskIds == 1..MaxTasks

(***************************************************************************)
(* Identity: keys.ts.  Byte strings are records carrying their length; a   *)
(* signature is the pair (signer, message), which is what ed25519 lets a   *)
(* verifier decide.                                                        *)
(***************************************************************************)
getPublicKey(secretKey) == [len |-> 32, id |-> secretKey.id]

generateIdentity(name) ==
  [publicKey |-> getPublicKey([len |-> 32, id |-> name]),
   secretKey |-> [len |-> 32, id |-> name]]

sign(message, secretKey) ==
  [len |-> 64, signer |-> secretKey.id, message |-> message]

\* ed.verify raises on a signature or key of the wrong length.
edVerifyThrows(signature, publicKey) ==
  signature.len # 64 \/ publicKey.len # 32

edVerify(signature, message, publicKey) ==
  signature.signer = publicKey.id /\ signature.message = message

verify(signature, message, publicKey) ==
  IF edVerifyThrows(signature, publicKey)
    THEN FALSE
    ELSE edVerify(signature, message, publicKey)

(***************************************************************************)
(* Hex strings (ed.etc.bytesToHex / hexToBytes).  hexToBytes raises on a   *)
(* value that is not a string of hex digit pairs (also a missing field).   *)
(***************************************************************************)
bytesToHex(bytes) == [hex |-> bytes]
NotHex == [nothex |-> TRUE]
hexToBytesThrows(h) == "hex" \notin DOMAIN h
hexToBytes(h) == h.hex
ShortBytes == [len |-> 1]

\* hexToBytes reads the digits a-f in either case: the upper-case spelling
\* of a hex string is another string that decodes to the same bytes.
toUpperCase(h) == [hex |-> h.hex, upper |-> TRUE]

(***************************************************************************)
(* Canonical encoding: serialize.ts.  The keys of an object are emitted    *)
(* in sorted order; KeyOrder lists the keys of the protocol structures in  *)
(* that order.                                                             *)
(***************************************************************************)
KeyOrder ==
  <<"agent", "cert", "delegation", "envelope", "expiresAt", "from", "issuedAt", "owner",
    "payload", "response", "result", "scope", "signature", "taskId",
    "timestamp", "to", "tool", "type">>

NestedKeys == {"cert", "delegation", "envelope", "response"}

sortKeys(object) == SelectSeq(KeyOrder, LAMBDA k : k \in DOMAIN object)

RECURSIVE canonicalize(_)
canonicalize(object) ==
  LET keys == sortKeys(object)
  IN  [i \in 1..Len(keys) |->
         <<keys[i],
           IF keys[i] \in NestedKeys
             THEN canonicalize(object[keys[i]])
             ELSE object[keys[i]]>>]

withoutSignature(structure) ==
  [k \in DOMAIN structure \ {"signature"} |-> structure[k]]

(***************************************************************************)
(* JSON values carried as payloads: protocol/types.ts (payload: unknown).  *)
(***************************************************************************)
JNull == [type |-> "null"]
JArray == [type |-> "array"]
JString(s) == [type |-> "string", value |-> s]
JNumber(n) == [type |-> "number", value |-> n]
JObject(fields) == [type |-> "object", fields |-> fields]
JBoolean(b) == [type |-> "boolean", value |-> b]

\* JavaScript's typeof: null and arrays are objects.
typeofJs(v) == IF v.type \in {"null", "array", "object"} THEN "object" ELSE v.type
isArray(v) == v.type = "array"

(***************************************************************************)
(* Tool definitions and payload validation: standard-tools.ts.             *)
(***************************************************************************)
LLM_MESSAGE_TOOL_NAME == "quokkamesh/llm-message"

LLM_MESSAGE_TOOL ==
  [name |-> LLM_MESSAGE_TOOL_NAME,
   description |-> "Free-form text message for LLM agents.",
   parameters |-> [type |-> "object",
                   required |-> <<"text">>,
                   properties |-> [text |-> [type |-> "string"]]]]

\* tests/fixtures/echo.ts
echoTool == [name |-> "echo", description |-> "Echoes back the message it receives"]

\* The check of one required key (the body of the loop over params.required):
\* <<>> when the key passes, the error otherwise.
requiredKeyError(params, obj, key) ==
  IF key \notin DOMAIN obj
    THEN <<"Missing required field", key>>
    ELSE IF "properties" \in DOMAIN params
            /\ key \in DOMAIN params.properties
            /\ "type" \in DOMAIN params.properties[key]
      THEN LET expected == params.properties[key].type
               val == obj[key]
               actual == IF isArray(val) THEN "array" ELSE typeofJs(val)
           IN  IF expected = "integer" /\ typeofJs(val) # "number"
                 THEN <<"Field expected type but got", key, expected, actual>>
                 ELSE IF expected # "array" /\ expected # "object" /\ actual # expected
                   THEN <<"Field expected type but got", key, expected, actual>>
                   ELSE IF (expected = "array" \/ expected = "object") /\ actual # expected
                     THEN <<"Field expected type but got", key, expected, actual>>
                     ELSE <<>>
      ELSE <<>>

RECURSIVE requiredErrors(_, _, _)
requiredErrors(params, obj, keys) ==
  IF keys = <<>>
    THEN <<>>
    ELSE IF requiredKeyError(params, obj, Head(keys)) # <<>>
      THEN requiredKeyError(params, obj, Head(keys))
      ELSE requiredErrors(params, obj, Tail(keys))

validatePayload(tool, payload) ==
  IF tool.name = LLM_MESSAGE_TOOL_NAME
    THEN IF payload.type = "null" \/ typeofJs(payload) # "object" \/ isArray(payload)
      THEN [valid |-> FALSE, error |-> <<"Payload must be an object with a text field">>]
      ELSE IF "text" \notin DOMAIN payload.fields
                \/ typeofJs(payload.fields.text) # "string"
        THEN [valid |-> FALSE, error |-> <<"Payload must have a string text field">>]
        ELSE [valid |-> TRUE]
    ELSE IF payload.type = "null" \/ typeofJs(payload) # "object" \/ isArray(payload)
      THEN [valid |-> FALSE, error |-> <<"Payload must be an object">>]
      ELSE IF "parameters" \in DOMAIN tool /\ "required" \in DOMAIN tool.parameters
        THEN LET e == requiredErrors(tool.parameters, payload.fields,
                                     tool.parameters.required)
             IN  IF e # <<>> THEN [valid |-> FALSE, error |-> e] ELSE [valid |-> TRUE]
        ELSE [valid |-> TRUE]

(***************************************************************************)
(* Tool registry: tools.ts.  The entries map is a function from the        *)
(* registered names to {tool, handler}.                                    *)
(***************************************************************************)
\* Variant that keeps the first registration of a name.
registerKeepsFirst(entries, tool, handler) ==
  [n \in DOMAIN entries \cup {tool.name} |->
     IF n \in DOMAIN entries THEN entries[n] ELSE [tool |-> tool, handler |-> handler]]

register(entries, tool, handler) ==
  [n \in DOMAIN entries \cup {tool.name} |->
     IF n = tool.name THEN [tool |-> tool, handler |-> handler] ELSE entries[n]]

has(entries, toolName) == toolName \in DOMAIN entries
NoEntries == [n \in {} |-> 0]

(***************************************************************************)
(* Signed structures: envelope.ts and delegation.ts.                       *)
(***************************************************************************)
\* Variant that signs the fields before the timestamp is added.
createTaskEnvelopeSignsBeforeStamp(id, taskId, to, tool, payload, time) ==
  LET unsigned == [taskId |-> taskId, from |-> bytesToHex(id.publicKey), to |-> to,
                   tool |-> tool, payload |-> payload]
  IN  [taskId |-> taskId, from |-> bytesToHex(id.publicKey), to |-> to,
       tool |-> tool, payload |-> payload, timestamp |-> time,
       signature |-> bytesToHex(sign(canonicalize(unsigned), id.secretKey))]

createTaskEnvelope(id, taskId, to, tool, payload, time) ==
  LET unsigned == [taskId |-> taskId, from |-> bytesToHex(id.publicKey), to |-> to,
                   tool |-> tool, payload |-> payload, timestamp |-> time]
  IN  [taskId |-> taskId, from |-> bytesToHex(id.publicKey), to |-> to,
       tool |-> tool, payload |-> payload, timestamp |-> time,
       signature |-> bytesToHex(sign(canonicalize(unsigned), id.secretKey))]

verifyTaskEnvelopeThrows(envelope) ==
  hexToBytesThrows(envelope.signature) \/ hexToBytesThrows(envelope.from)

verifyTaskEnvelope(envelope) ==
  verify(hexToBytes(envelope.signature), canonicalize(withoutSignature(envelope)),
         hexToBytes(envelope.from))

\* Variant whose signature covers the result alone.
createTaskResponseSignsResultOnly(id, taskId, result, time) ==
  [taskId |-> taskId, from |-> bytesToHex(id.publicKey), result |-> result,
   timestamp |-> time,
   signature |-> bytesToHex(sign(canonicalize([result |-> result]), id.secretKey))]

createTaskResponse(id, taskId, result, time) ==
  LET unsigned == [taskId |-> taskId, from |-> bytesToHex(id.publicKey),
                   result |-> result, timestamp |-> time]
  IN  [taskId |-> taskId, from |-> bytesToHex(id.publicKey),
       result |-> result, timestamp |-> time,
       signature |-> bytesToHex(sign(canonicalize(unsigned), id.secretKey))]

verifyTaskResponseThrows(response) ==
  hexToBytesThrows(response.signature) \/ hexToBytesThrows(response.from)

verifyTaskResponse(response) ==
  verify(hexToBytes(response.signature), canonicalize(withoutSignature(response)),
         hexToBytes(response.from))

createDelegationCert(ownerIdentity, agentPublicKey, scope, ttlMs, time) ==
  LET unsigned == [owner |-> bytesToHex(ownerIdentity.publicKey),
                   agent |-> bytesToHex(agentPublicKey), scope |-> scope,
                   issuedAt |-> time, expiresAt |-> time + ttlMs]
  IN  [owner |-> bytesToHex(ownerIdentity.publicKey),
       agent |-> bytesToHex(agentPublicKey), scope |-> scope,
       issuedAt |-> time, expiresAt |-> time + ttlMs,
       signature |-> bytesToHex(sign(canonicalize(unsigned), ownerIdentity.secretKey))]

\* A property the object does not have reads as undefined.
Undefined == [undefined |-> TRUE]
field(object, key) == IF key \in DOMAIN object THEN object[key] ELSE Undefined

\* cert.expiresAt <= Date.now(); the comparison is false for undefined.
expired(cert, time) == "expiresAt" \in DOMAIN cert /\ cert.expiresAt <= time

\* hexToBytes is reached only for a certificate that has not expired.
verifyDelegationCertThrows(cert, time) ==
  ~expired(cert, time)
  /\ (hexToBytesThrows(field(cert, "signature")) \/ hexToBytesThrows(field(cert, "owner")))

\* Variant without the expiry test.
verifyDelegationCertIgnoresExpiry(cert, time) ==
  /\ ~hexToBytesThrows(field(cert, "signature"))
  /\ ~hexToBytesThrows(field(cert, "owner"))
  /\ verify(hexToBytes(cert.signature), canonicalize(withoutSignature(cert)),
            hexToBytes(cert.owner))

verifyDelegationCert(cert, time) ==
  IF expired(cert, time)
    THEN FALSE
    ELSE verify(hexToBytes(cert.signature), canonicalize(withoutSignature(cert)),
                hexToBytes(cert.owner))

\* && evaluates its right operand only when the left one is true, so that the
\* second certificate is verified only when the first one verifies.
isFleetSiblingThrows(certA, certB, time) ==
  \/ verifyDelegationCertThrows(certA, time)
  \/ /\ verifyDelegationCert(certA, time)
     /\ verifyDelegationCertThrows(certB, time)

isFleetSibling(certA, certB, time) ==
  /\ verifyDelegationCert(certA, time)
  /\ verifyDelegationCert(certB, time)
  /\ field(certA, "owner") = field(certB, "owner")

(***************************************************************************)
(* The constructor of Agent: its second argument is absent, a delegation   *)
(* certificate, or an options object, told from a certificate by its       *)
(* having an identity or a requestTimeoutMs key.                           *)
(***************************************************************************)
NoArgument == [absent |-> TRUE]
NoDelegation == Undefined

constructDelegation(delegationOrOptions) ==
  IF delegationOrOptions = NoArgument
    THEN NoDelegation
    ELSE IF "identity" \in DOMAIN delegationOrOptions
              \/ "requestTimeoutMs" \in DOMAIN delegationOrOptions
      THEN field(delegationOrOptions, "delegation")
      ELSE delegationOrOptions

(***************************************************************************)
(* Wire messages: agent.ts (WireMessage, isValidWireMessage).  A message   *)
(* travels as the canonical encoding of {type, envelope | response | cert};*)
(* the receiver decodes it with JSON.parse.                                *)
(***************************************************************************)
Undecodable == <<>>

JSONparseThrows(bytes) == bytes = Undecodable

RECURSIVE JSONparse(_)
JSONparse(bytes) ==
  [k \in {bytes[i][1] : i \in DOMAIN bytes} |->
     LET v == bytes[CHOOSE i \in DOMAIN bytes : bytes[i][1] = k][2]
     IN  IF k \in NestedKeys THEN JSONparse(v) ELSE v]

isValidWireMessage(parsed) ==
  /\ "type" \in DOMAIN parsed
  /\ \/ /\ parsed.type = "task"
        /\ "envelope" \in DOMAIN parsed
        /\ "taskId" \in DOMAIN parsed.envelope
     \/ /\ parsed.type = "response"
        /\ "response" \in DOMAIN parsed
        /\ "taskId" \in DOMAIN parsed.response
     \/ /\ parsed.type = "cert-exchange"
        /\ "cert" \in DOMAIN parsed
        /\ "owner" \in DOMAIN parsed.cert

(***************************************************************************)
(* The agents of the model and the inputs of their callers.                *)
(***************************************************************************)
identity == [n \in Agents \cup {Outsider, "O", "P"} |-> generateIdentity(n)]
requestTimeoutMs == 30000

okPayload == JObject([message |-> JString("hello")])

\* echoHandler returns {echo: payload.message}; the handler registered for the
\* LLM message tool acknowledges the text.
handlerResult(handler, payload) ==
  IF handler = "echoHandler"
    THEN IF "message" \in DOMAIN payload.fields
           THEN [echo |-> payload.fields.message.value]
           ELSE [echo |-> "undefined"]
    ELSE [ok |-> TRUE]

\* (peer, tool, payload) arguments of Agent.request
RequestInputs == {<<"B", "echo", okPayload>>}

Requesters == {"A"}
ToolProviders == {"B"}

(***************************************************************************)
(* What is remembered of the calls made on each transport: whether its     *)
(* last start() or stop() to return was a start ("started"), a stop        *)
(* ("stopped") or neither yet ("new"), the list handed to its most recent  *)
(* advertise() that returned, and whether that call came after the latest  *)
(* start().                                                                *)
(***************************************************************************)
NoAdvertisement == Undefined

logOf(reg, p) ==
  IF p \in DOMAIN reg
    THEN [state |-> "started", advertised |-> [tools |-> reg[p]], sinceStart |-> TRUE]
    ELSE [state |-> "new", advertised |-> NoAdvertisement, sinceStart |-> FALSE]

logStart(log) ==
  IF log.state = "started" THEN log ELSE [log EXCEPT !.state = "started", !.sinceStart = FALSE]

logStop(log) == [log EXCEPT !.state = "stopped"]

logAdvertise(log, toolList) ==
  [log EXCEPT !.advertised = [tools |-> toolList], !.sinceStart = TRUE]

(***************************************************************************)
(* State.                                                                  *)
(***************************************************************************)
VARIABLES
  now,        \* Date.now()
  started,    \* Agent.started
  stopPc,     \* where each agent is in stop(): idle, stopping (awaiting transport.stop()), done
  registry,   \* local.ts registry: started transports and the tools they advertise
  tools,      \* Agent.tools: ToolRegistry entries
  nextId,     \* number of task ids drawn so far, plus one (crypto.randomUUID)
  requests,   \* per call of request(): caller, peer, envelope, timer delay
  pending,    \* Agent.pending: the task ids in the PendingRequest table
  timers,     \* per request: state of its setTimeout timer
  futures,    \* per request: state of the promise returned to the caller
  sends,      \* per request: state of the promise of transport.send
  net,        \* messages accepted by a transport and not yet delivered
  running,    \* handler invocations that have not settled
  nInvoked,   \* number of handler invocations so far
  peerCerts,  \* Agent.peerCerts
  stopSeen,   \* history: the requests pending at the last call of stop() or added while it ran
  delegation, \* Agent.delegation
  given,      \* history: the second argument each agent was constructed with
  transportLog, \* history, per transport: what start(), stop() and advertise() did last
  last        \* the step just taken: operation, message handled, messages handed to send

vars == <<now, started, stopPc, registry, tools, nextId, requests, pending, timers,
          futures, sends, net, running, nInvoked, peerCerts,
          stopSeen, delegation, given, transportLog, last>>

NoRequest == [agent |-> "none"]
NoMessage == [op |-> "none"]
NoFuture == [state |-> "none"]
PendingFuture == [state |-> "pending"]

\* Promise semantics: resolve and reject act on a pending promise only.
settle(future, outcome) == IF future.state = "pending" THEN outcome ELSE future
resolved(value) == [state |-> "resolved", value |-> value]
rejected(message) == [state |-> "rejected", error |-> message]

\* The state after construction of A and B, B.registerTool(echoTool, echoHandler)
\* and B.start(): agent B starts first (tests/p2p.test.ts, setupAgents).
Init ==
  /\ now = 0
  /\ started = [a \in Agents |-> a = "B"]
  /\ stopPc = [a \in Agents |-> "idle"]
  /\ registry = [p \in {"B"} |-> {echoTool}]
  /\ tools = [a \in Agents |->
                IF a = "B" THEN register(NoEntries, echoTool, "echoHandler") ELSE NoEntries]
  /\ nextId = 1
  /\ requests = [t \in TaskIds |-> NoRequest]
  /\ pending = [a \in Agents |-> {}]
  /\ timers = [t \in TaskIds |-> "none"]
  /\ futures = [t \in TaskIds |-> NoFuture]
  /\ sends = [t \in TaskIds |-> "none"]
  /\ net = {}
  /\ running = [a \in Agents |-> {}]
  /\ nInvoked = 0
  /\ peerCerts = [a \in Agents |-> NoEntries]
  /\ stopSeen = [a \in Agents |-> {}]
  /\ given = [a \in Agents |-> NoArgument]
  /\ delegation = [a \in Agents |-> constructDelegation(given[a])]
  /\ transportLog = [p \in Agents |-> logOf(registry, p)]
  /\ last = NoMessage

(***************************************************************************)
(* Transport: interface.ts, local.ts, libp2p.ts.  send() to a peer either  *)
(* hands the bytes over and resolves, rejects without handing them over    *)
(* (peer not found, no connection), or hands them over and then rejects    *)
(* (libp2p: the stream fails to close after the write).                    *)
(***************************************************************************)
SendOutcomes(to) ==
  IF to = Outsider \/ to \in DOMAIN registry
    THEN {"delivered", "rejected", "deliveredRejected"}
    ELSE {"rejected"}

accepted(from, to, bytes, outcome) ==
  IF outcome # "rejected" /\ to \in Agents
    THEN {[from |-> from, to |-> to, bytes |-> bytes]}
    ELSE {}

(***************************************************************************)
(* Agent.registerTool, Agent.start, Agent.stop.                            *)
(***************************************************************************)
list(entries) == {entries[n].tool : n \in DOMAIN entries}

RegisterTool(a, tool, handler) ==
  /\ tools' = [tools EXCEPT ![a] = register(@, tool, handler)]
  /\ last' = NoMessage
  /\ UNCHANGED <<now, started, stopPc, registry, nextId, requests, pending, timers,
                 futures, sends, net, running, nInvoked, peerCerts, stopSeen, delegation, given, transportLog>>

\* Variant of start() without the test of this.started.
startIgnoresFlag(a) ==
  /\ started' = [started EXCEPT ![a] = TRUE]
  /\ registry' = [p \in DOMAIN registry \cup {a} |->
                    IF p = a THEN list(tools[a]) ELSE registry[p]]
  /\ transportLog' = [transportLog EXCEPT ![a] = logAdvertise(logStart(@), list(tools[a]))]

\* transport.onMessage, transport.start, transport.advertise(tools.list())
start(a) ==
  /\ IF started[a]
       THEN UNCHANGED <<started, registry>>
       ELSE /\ started' = [started EXCEPT ![a] = TRUE]
            /\ registry' = [p \in DOMAIN registry \cup {a} |->
                              IF p = a THEN list(tools[a]) ELSE registry[p]]
  /\ transportLog' =
       IF started[a]
         THEN transportLog
         ELSE [transportLog EXCEPT ![a] = logAdvertise(logStart(@), list(tools[a]))]

Start(a) ==
  /\ start(a)
  /\ last' = NoMessage
  /\ UNCHANGED <<now, stopPc, tools, nextId, requests, pending, timers,
                 futures, sends, net, running, nInvoked, peerCerts, stopSeen, delegation, given>>

\* stop() up to its await: transport.stop() has been invoked.
StopBegin(a) ==
  /\ stopPc[a] # "stopping"
  /\ stopPc' = [stopPc EXCEPT ![a] = "stopping"]
  /\ stopSeen' = [stopSeen EXCEPT ![a] = pending[a]]
  /\ last' = NoMessage
  /\ UNCHANGED <<now, started, registry, tools, nextId, requests, pending, timers,
                 futures, sends, net, running, nInvoked, peerCerts, delegation, given, transportLog>>

\* Variant of the loop without clearTimeout.
stopTimersKeepsTimers(a) == timers

\* The loop of stop() over this.pending: clearTimeout, reject, delete.
stopTimers(a) ==
  [t \in TaskIds |-> IF t \in pending[a] /\ timers[t] = "armed" THEN "cleared" ELSE timers[t]]

stopFutures(a) ==
  [t \in TaskIds |->
     IF t \in pending[a] THEN settle(futures[t], rejected("Agent stopped")) ELSE futures[t]]

\* transport.stop() has returned; the rest of stop() runs.
StopFinish(a) ==
  /\ stopPc[a] = "stopping"
  /\ stopPc' = [stopPc EXCEPT ![a] = "done"]
  /\ registry' = [p \in DOMAIN registry \ {a} |-> registry[p]]
  /\ timers' = stopTimers(a)
  /\ futures' = stopFutures(a)
  /\ pending' = [pending EXCEPT ![a] = {}]
  /\ transportLog' = [transportLog EXCEPT ![a] = logStop(@)]
  /\ last' = NoMessage
  /\ UNCHANGED <<now, started, tools, nextId, requests, sends, net, running,
                 nInvoked, peerCerts, stopSeen, delegation, given>>

(***************************************************************************)
(* Agent.request and the events that settle it.                            *)
(***************************************************************************)
Request(a, peer, tool, payload, outcome) ==
  /\ nextId <= MaxTasks
  /\ LET t == nextId
         envelope == createTaskEnvelope(identity[a], t, peer, tool, payload, now)
         bytes == canonicalize([type |-> "task", envelope |-> envelope])
     IN  /\ requests' = [requests EXCEPT ![t] =
                           [agent |-> a, peer |-> peer, envelope |-> envelope,
                            timeoutMs |-> requestTimeoutMs]]
         /\ timers' = [timers EXCEPT ![t] = "armed"]
         /\ pending' = [pending EXCEPT ![a] = @ \cup {t}]
         /\ futures' = [futures EXCEPT ![t] = PendingFuture]
         /\ sends' = [sends EXCEPT ![t] = IF outcome = "delivered" THEN "ok" ELSE "failing"]
         /\ net' = net \cup accepted(a, peer, bytes, outcome)
         /\ stopSeen' = IF stopPc[a] = "stopping"
                           THEN [stopSeen EXCEPT ![a] = @ \cup {t}]
                           ELSE stopSeen
         /\ last' = NoMessage
  /\ nextId' = nextId + 1
  /\ UNCHANGED <<now, started, stopPc, registry, tools, running, nInvoked,
                 peerCerts, delegation, given, transportLog>>

\* The setTimeout callback of request().  The timer fires at some point after
\* requests[t].timeoutMs unless clearTimeout ran first; when that is relative to
\* the other events is left open: the callback interleaves with them in every way.
\* Variant of the callback that rejects but leaves the table entry in place.
timeoutCallbackKeepsEntry(t) ==
  /\ UNCHANGED pending
  /\ futures' = [futures EXCEPT ![t] = settle(@, rejected("Request timed out"))]

timeoutCallback(t) ==
  /\ pending' = [pending EXCEPT ![requests[t].agent] = @ \ {t}]
  /\ futures' = [futures EXCEPT ![t] = settle(@, rejected("Request timed out"))]

TimerFire(t) ==
  /\ timers[t] = "armed"
  /\ timers' = [timers EXCEPT ![t] = "fired"]
  /\ timeoutCallback(t)
  /\ last' = NoMessage
  /\ UNCHANGED <<now, started, stopPc, registry, tools, nextId, requests, sends,
                 net, running, nInvoked, peerCerts, stopSeen, delegation, given, transportLog>>

\* The catch callback on the promise of transport.send in request().
\* Variant of the catch callback that empties the whole table.
sendCatchClearsTable(t) ==
  /\ timers' = [timers EXCEPT ![t] = IF @ = "armed" THEN "cleared" ELSE @]
  /\ pending' = [pending EXCEPT ![requests[t].agent] = {}]
  /\ futures' = [futures EXCEPT ![t] = settle(@, rejected("send failed"))]

\* Variant of the catch callback without clearTimeout.
sendCatchKeepsTimer(t) ==
  /\ UNCHANGED timers
  /\ pending' = [pending EXCEPT ![requests[t].agent] = @ \ {t}]
  /\ futures' = [futures EXCEPT ![t] = settle(@, rejected("send failed"))]

sendCatch(t) ==
  /\ timers' = [timers EXCEPT ![t] = IF @ = "armed" THEN "cleared" ELSE @]
  /\ pending' = [pending EXCEPT ![requests[t].agent] = @ \ {t}]
  /\ futures' = [futures EXCEPT ![t] = settle(@, rejected("send failed"))]

SendFailed(t) ==
  /\ sends[t] = "failing"
  /\ sends' = [sends EXCEPT ![t] = "failed"]
  /\ sendCatch(t)
  /\ last' = NoMessage
  /\ UNCHANGED <<now, started, stopPc, registry, tools, nextId, requests,
                 net, running, nInvoked, peerCerts, stopSeen, delegation, given, transportLog>>

(***************************************************************************)
(* Agent.handleMessage and the handlers it dispatches to.  netRest is the  *)
(* network without the message being delivered.                            *)
(***************************************************************************)
handled(op, a, peer, msg, sent, threw) ==
  [op |-> op, agent |-> a, peer |-> peer, msg |-> msg, sent |-> sent, threw |-> threw]

\* Variant that answers what it cannot decode with an error result.
DroppedWithReply(a, peer, bytes, netRest) ==
  LET response == createTaskResponse(identity[a], 0, [error |-> <<"malformed message">>], now)
  IN  /\ net' = netRest \cup accepted(a, peer,
                   canonicalize([type |-> "response", response |-> response]), "delivered")
      /\ last' = handled("drop", a, peer, bytes, <<response>>, "none")
      /\ UNCHANGED <<now, started, stopPc, registry, tools, nextId, requests, pending,
                     timers, futures, sends, running, nInvoked, peerCerts, stopSeen, delegation, given, transportLog>>

\* A parse failure or a value that is not a wire message: return.
Dropped(a, peer, bytes, netRest) ==
  /\ net' = netRest
  /\ last' = handled("drop", a, peer, bytes, <<>>, "none")
  /\ UNCHANGED <<now, started, stopPc, registry, tools, nextId, requests, pending,
                 timers, futures, sends, running, nInvoked, peerCerts, stopSeen, delegation, given, transportLog>>

\* createTaskResponse, canonicalize and await transport.send: the error replies
\* of handleTask.  A rejected send rejects the promise of handleTask itself.
replyError(a, peer, envelope, error, netRest) ==
  LET response == createTaskResponse(identity[a], envelope.taskId, [error |-> error], now)
      bytes == canonicalize([type |-> "response", response |-> response])
  IN  \E outcome \in SendOutcomes(peer) :
        /\ net' = netRest \cup accepted(a, peer, bytes, outcome)
        /\ last' = handled("task", a, peer, envelope, <<response>>,
                           IF outcome = "delivered" THEN "none" ELSE "unhandled")

\* Variant that answers an envelope whose handler is already running as it
\* answers an unknown tool.
taskDecisionRefusesCopy(a, envelope) ==
  IF verifyTaskEnvelopeThrows(envelope) THEN "throw"
  ELSE IF ~verifyTaskEnvelope(envelope) THEN "invalid signature"
  ELSE IF ~has(tools[a], envelope.tool) THEN "unknown tool"
  ELSE IF \E r \in running[a] : r.envelope = envelope THEN "unknown tool"
  ELSE IF ~validatePayload(tools[a][envelope.tool].tool, envelope.payload).valid
    THEN "invalid payload"
  ELSE "execute"

\* Variant of the decision without validatePayload.
taskDecisionSkipsValidation(a, envelope) ==
  IF verifyTaskEnvelopeThrows(envelope) THEN "throw"
  ELSE IF ~verifyTaskEnvelope(envelope) THEN "invalid signature"
  ELSE IF ~has(tools[a], envelope.tool) THEN "unknown tool"
  ELSE "execute"

\* The decision of handleTask before anything is executed.
taskDecision(a, envelope) ==
  IF verifyTaskEnvelopeThrows(envelope) THEN "throw"
  ELSE IF ~verifyTaskEnvelope(envelope) THEN "invalid signature"
  ELSE IF ~has(tools[a], envelope.tool) THEN "unknown tool"
  ELSE IF ~validatePayload(tools[a][envelope.tool].tool, envelope.payload).valid
    THEN "invalid payload"
  ELSE "execute"

HandleTask(a, peer, envelope, netRest) ==
  /\ LET decision == taskDecision(a, envelope)
     IN  \/ /\ decision = "throw"
            /\ net' = netRest
            /\ last' = handled("task", a, peer, envelope, <<>>, "unhandled")
            /\ UNCHANGED <<running, nInvoked>>
         \/ /\ decision = "invalid signature"
            /\ replyError(a, peer, envelope, <<"invalid signature">>, netRest)
            /\ UNCHANGED <<running, nInvoked>>
         \/ /\ decision = "unknown tool"
            /\ replyError(a, peer, envelope, <<"unknown tool", envelope.tool>>, netRest)
            /\ UNCHANGED <<running, nInvoked>>
         \/ /\ decision = "invalid payload"
            /\ replyError(a, peer, envelope,
                          validatePayload(tools[a][envelope.tool].tool,
                                          envelope.payload).error, netRest)
            /\ UNCHANGED <<running, nInvoked>>
         \/ /\ decision = "execute"
            /\ running' = [running EXCEPT ![a] = @ \cup
                             {[n |-> nInvoked + 1, peer |-> peer, envelope |-> envelope,
                               handler |-> tools[a][envelope.tool].handler]}]
            /\ nInvoked' = nInvoked + 1
            /\ net' = netRest
            /\ last' = handled("task", a, peer, envelope, <<>>, "none")
  /\ UNCHANGED <<now, started, stopPc, registry, tools, nextId, requests, pending,
                 timers, futures, sends, peerCerts, stopSeen, delegation, given, transportLog>>

\* error instanceof Error ? error.message : 'handler failed'
failureDescription(how) ==
  IF how = "throwError" THEN <<"boom">> ELSE <<"handler failed">>

\* Variant without the try/catch around the handler: a failure is not answered.
HandlerSettledUncaught(a, r, how, o1, o2) ==
  /\ r \in running[a]
  /\ o1 \in SendOutcomes(r.peer)
  /\ o2 \in SendOutcomes(r.peer)
  /\ running' = [running EXCEPT ![a] = @ \ {r}]
  /\ LET response == createTaskResponse(identity[a], r.envelope.taskId,
                                        handlerResult(r.handler, r.envelope.payload), now)
     IN  IF how = "return"
           THEN /\ net' = net \cup accepted(a, r.peer,
                            canonicalize([type |-> "response", response |-> response]), o1)
                /\ last' = handled("handlerSettled", a, r.peer, r.envelope, <<response>>,
                                   IF o1 = "delivered" THEN "none" ELSE "unhandled")
           ELSE /\ net' = net
                /\ last' = handled("handlerFailed", a, r.peer, r.envelope, <<>>, "unhandled")
  /\ UNCHANGED <<now, started, stopPc, registry, tools, nextId, requests, pending,
                 timers, futures, sends, nInvoked, peerCerts, stopSeen, delegation, given, transportLog>>

\* handleTask from the point where the promise of the handler settles.  o1 is
\* the outcome of the transport.send that follows, o2 that of the send in the
\* catch block when the first one rejected.
HandlerSettled(a, r, how, o1, o2) ==
  /\ r \in running[a]
  /\ o1 \in SendOutcomes(r.peer)
  /\ o2 \in SendOutcomes(r.peer)
  /\ running' = [running EXCEPT ![a] = @ \ {r}]
  /\ LET taskId == r.envelope.taskId
         response == createTaskResponse(identity[a], taskId,
                                        handlerResult(r.handler, r.envelope.payload), now)
         errorResponse(message) ==
           createTaskResponse(identity[a], taskId, [error |-> message], now)
         wire(resp) == canonicalize([type |-> "response", response |-> resp])
     IN  \/ /\ how = "return"
            /\ \/ /\ o1 = "delivered"
                  /\ net' = net \cup accepted(a, r.peer, wire(response), o1)
                  /\ last' = handled("handlerSettled", a, r.peer, r.envelope,
                                     <<response>>, "none")
               \/ /\ o1 # "delivered"
                  /\ net' = net \cup accepted(a, r.peer, wire(response), o1)
                             \cup accepted(a, r.peer,
                                           wire(errorResponse(<<"send failed">>)), o2)
                  /\ last' = handled("handlerSettled", a, r.peer, r.envelope,
                                     <<response, errorResponse(<<"send failed">>)>>,
                                     IF o2 = "delivered" THEN "none" ELSE "unhandled")
         \/ /\ how \in {"throwError", "throwOther"}
            /\ LET message == failureDescription(how)
               IN  /\ net' = net \cup accepted(a, r.peer, wire(errorResponse(message)), o1)
                   /\ last' = handled("handlerFailed", a, r.peer, r.envelope,
                                      <<errorResponse(message)>>,
                                      IF o1 = "delivered" THEN "none" ELSE "unhandled")
  /\ UNCHANGED <<now, started, stopPc, registry, tools, nextId, requests, pending,
                 timers, futures, sends, nInvoked, peerCerts, stopSeen, delegation, given, transportLog>>

\* this.pending.get(response.taskId)
handleResponseMatches(a, response) == response.taskId \in pending[a]

\* Variant in which the response is verified before the table is consulted.
handleResponseThrowsEager(a, response) ==
  verifyTaskResponseThrows(response)

\* verifyTaskResponse is reached, and raises, only for a matching response.
handleResponseThrows(a, response) ==
  handleResponseMatches(a, response) /\ verifyTaskResponseThrows(response)

\* Variant that turns a verified error result into a rejection.
responseOutcomeRejectsErrors(future, response) ==
  IF ~verifyTaskResponse(response)
    THEN settle(future, rejected("Invalid task response signature"))
    ELSE IF "error" \in DOMAIN response.result
      THEN settle(future, rejected("remote error"))
      ELSE settle(future, resolved(response))

\* Variant that resolves with whatever arrived.
responseOutcomeUnverified(future, response) ==
  settle(future, resolved(response))

\* pending.reject on a failed verification, pending.resolve otherwise.
responseOutcome(future, response) ==
  IF ~verifyTaskResponse(response)
    THEN settle(future, rejected("Invalid task response signature"))
    ELSE settle(future, resolved(response))

HandleResponse(a, peer, response, netRest) ==
  /\ LET t == response.taskId
     IN  IF ~handleResponseMatches(a, response)
           THEN UNCHANGED <<pending, timers, futures>>
           ELSE /\ pending' = [pending EXCEPT ![a] = @ \ {t}]
                /\ timers' = [timers EXCEPT ![t] = IF @ = "armed" THEN "cleared" ELSE @]
                /\ futures' = IF verifyTaskResponseThrows(response)
                                THEN futures
                                ELSE [futures EXCEPT ![t] = responseOutcome(@, response)]
  /\ last' = handled("response", a, peer, response, <<>>,
                     IF handleResponseThrows(a, response) THEN "escaped" ELSE "none")
  /\ net' = netRest
  /\ UNCHANGED <<now, started, stopPc, registry, tools, nextId, requests, sends,
                 running, nInvoked, peerCerts, stopSeen, delegation, given, transportLog>>

HandleCertExchange(a, peer, cert, netRest) ==
  /\ IF verifyDelegationCertThrows(cert, now)
       THEN /\ UNCHANGED peerCerts
            /\ last' = handled("cert-exchange", a, peer, cert, <<>>, "escaped")
       ELSE /\ peerCerts' =
                 IF verifyDelegationCert(cert, now)
                   THEN [peerCerts EXCEPT ![a] =
                           [p \in DOMAIN @ \cup {peer} |-> IF p = peer THEN cert ELSE @[p]]]
                   ELSE peerCerts
            /\ last' = handled("cert-exchange", a, peer, cert, <<>>, "none")
  /\ net' = netRest
  /\ UNCHANGED <<now, started, stopPc, registry, tools, nextId, requests, pending,
                 timers, futures, sends, running, nInvoked, stopSeen, delegation, given, transportLog>>

handleMessage(a, peer, bytes, netRest) ==
  IF JSONparseThrows(bytes)
    THEN Dropped(a, peer, bytes, netRest)
    ELSE LET parsed == JSONparse(bytes)
         IN  IF ~isValidWireMessage(parsed)
               THEN Dropped(a, peer, bytes, netRest)
               ELSE \/ parsed.type = "task" /\ HandleTask(a, peer, parsed.envelope, netRest)
                    \/ parsed.type = "response"
                       /\ HandleResponse(a, peer, parsed.response, netRest)
                    \/ parsed.type = "cert-exchange"
                       /\ HandleCertExchange(a, peer, parsed.cert, netRest)

(***************************************************************************)
(* The environment of the requesting agent: what its transport may hand    *)
(* to handleMessage.  The peer answers a task it was sent with a response  *)
(* signed with its own key; the outside peer crafts responses with its     *)
(* key, or with fields that are not well formed.  Task ids are random      *)
(* UUIDs: a message can name the id of a request only once the envelope    *)
(* has left the requester; 0 stands for an id that was never issued.       *)
(***************************************************************************)
peerResponse(t) == createTaskResponse(identity["B"], t, [echo |-> "hello"], 0)
craftedResponse(t) == createTaskResponse(identity[Outsider], t, [echo |-> "crafted"], 0)

onTheWire(t) == \E m \in net : m.from = requests[t].agent /\ m.to = requests[t].peer

KnownIds == {t \in TaskIds : requests[t] # NoRequest /\ onTheWire(t)}

ArrivingResponses ==
  UNION {{peerResponse(t),
          craftedResponse(t),
          [craftedResponse(t) EXCEPT !.from = bytesToHex(identity["B"].publicKey)],
          [craftedResponse(t) EXCEPT !.signature = NotHex],
          [craftedResponse(t) EXCEPT !.from = NotHex]}
         : t \in KnownIds}
  \cup {craftedResponse(0), [craftedResponse(0) EXCEPT !.signature = NotHex]}

ArrivingBytes ==
  {canonicalize([type |-> "response", response |-> r]) : r \in ArrivingResponses}

\* Variant in which a message waits until no handler of the agent is suspended.
ReceiveWhenIdle(a, peer, bytes) ==
  /\ a \in DOMAIN registry
  /\ running[a] = {}
  /\ handleMessage(a, peer, bytes, net)

\* The transport calls the handler registered with onMessage.
Receive(a, peer, bytes) ==
  /\ a \in DOMAIN registry
  /\ handleMessage(a, peer, bytes, net)

Next ==
  \/ \E a \in Agents : Start(a)
  \/ \E a \in Requesters : StopBegin(a)
  \/ \E a \in Requesters : StopFinish(a)
  \/ \E a \in Requesters, i \in RequestInputs :
       \E o \in SendOutcomes(i[1]) : Request(a, i[1], i[2], i[3], o)
  \/ \E t \in TaskIds : TimerFire(t)
  \/ \E t \in TaskIds : SendFailed(t)
  \/ \E a \in Requesters : \E bytes \in ArrivingBytes : Receive(a, Outsider, bytes)

Spec == Init /\ [][Next]_vars

\* The same agent under fair scheduling: an armed timer fires unless it is
\* cleared first, the promise of a failing transport.send rejects, and a
\* transport.stop() that was awaited returns.
FairSpec ==
  /\ Init
  /\ [][Next]_vars
  /\ \A t \in TaskIds : WF_vars(TimerFire(t))
  /\ \A t \in TaskIds : WF_vars(SendFailed(t))
  /\ \A a \in Requesters : WF_vars(StopFinish(a))

(***************************************************************************)
(* The environment of the receiving agent: the task messages a peer may    *)
(* deliver.  The outside peer signs envelopes with its own key, alters     *)
(* them after signing, relays an envelope signed by A, or sends fields     *)
(* that are not well formed; it also sends its delegation certificate.     *)
(***************************************************************************)
textPayload == JObject([text |-> JString("hi")])

\* the certificate the outside peer holds from its owner
craftedCert ==
  createDelegationCert(identity["O"], identity[Outsider].publicKey, <<>>, CertTtlMs, now)

outsiderEnvelope(tool, payload) ==
  createTaskEnvelope(identity[Outsider], 0, "B", tool, payload, now)

InboundEnvelopes ==
  {outsiderEnvelope("echo", okPayload),
   outsiderEnvelope("echo", JNull),
   outsiderEnvelope("nonexistent", okPayload),
   outsiderEnvelope(LLM_MESSAGE_TOOL_NAME, textPayload),
   outsiderEnvelope(LLM_MESSAGE_TOOL_NAME, okPayload),
   createTaskEnvelope(identity["A"], 1, "B", "echo", okPayload, now),
   [outsiderEnvelope("echo", okPayload) EXCEPT
      !.payload = JObject([message |-> JString("tampered")])],
   [outsiderEnvelope("echo", okPayload) EXCEPT !.tool = "nonexistent", !.payload = JNull],
   [outsiderEnvelope("echo", okPayload) EXCEPT
      !.from = bytesToHex(identity["A"].publicKey)],
   [outsiderEnvelope("echo", okPayload) EXCEPT !.signature = bytesToHex(ShortBytes)],
   [outsiderEnvelope("echo", okPayload) EXCEPT !.signature = NotHex],
   [outsiderEnvelope("nonexistent", JNull) EXCEPT !.from = NotHex]}

\* Certificates a peer may present: two that verify, one altered after signing,
\* one that has expired, one signed by another key than its owner's, and two
\* whose signature or owner is not hex.
InboundCerts ==
  {craftedCert,
   createDelegationCert(identity["O"], identity[Outsider].publicKey, <<"echo">>,
                        CertTtlMs, now),
   [craftedCert EXCEPT !.scope = <<"echo">>],
   createDelegationCert(identity["O"], identity[Outsider].publicKey, <<>>, 0, now),
   [craftedCert EXCEPT !.owner = bytesToHex(identity["A"].publicKey)],
   [craftedCert EXCEPT !.signature = NotHex],
   [craftedCert EXCEPT !.owner = NotHex]}

InboundBytes ==
  {canonicalize([type |-> "task", envelope |-> e]) : e \in InboundEnvelopes}
  \cup {canonicalize([type |-> "cert-exchange", cert |-> c]) : c \in InboundCerts}
  \cup {Undecodable, canonicalize([type |-> "task"]), canonicalize([type |-> "bogus"])}

Inbound(a, bytes) ==
  /\ nInvoked < MaxInvocations
  /\ Receive(a, Outsider, bytes)

InboundNext ==
  \/ \E a \in ToolProviders : RegisterTool(a, LLM_MESSAGE_TOOL, "llmHandler")
  \/ \E a \in ToolProviders : \E bytes \in InboundBytes : Inbound(a, bytes)
  \/ \E a \in ToolProviders, how \in {"return", "throwError", "throwOther"} :
       \E r \in running[a] :
         \E o1, o2 \in SendOutcomes(r.peer) : HandlerSettled(a, r, how, o1, o2)

InboundSpec == Init /\ [][InboundNext]_vars

(***************************************************************************)
(* Two agents end to end: A requests, the transport of B hands the bytes   *)
(* to B's handleMessage, B answers, the transport of A hands the answer to *)
(* A's handleMessage.  MeshInit is the state after A.start() as well.      *)
(***************************************************************************)
MeshRequestInputs ==
  {<<"B", "echo", okPayload>>, <<"B", "nonexistent", okPayload>>, <<"B", "echo", JNull>>}

MeshInit ==
  /\ now = 0
  /\ started = [a \in Agents |-> TRUE]
  /\ stopPc = [a \in Agents |-> "idle"]
  /\ registry = [p \in Agents |-> IF p = "B" THEN {echoTool} ELSE {}]
  /\ tools = [a \in Agents |->
                IF a = "B" THEN register(NoEntries, echoTool, "echoHandler") ELSE NoEntries]
  /\ nextId = 1
  /\ requests = [t \in TaskIds |-> NoRequest]
  /\ pending = [a \in Agents |-> {}]
  /\ timers = [t \in TaskIds |-> "none"]
  /\ futures = [t \in TaskIds |-> NoFuture]
  /\ sends = [t \in TaskIds |-> "none"]
  /\ net = {}
  /\ running = [a \in Agents |-> {}]
  /\ nInvoked = 0
  /\ peerCerts = [a \in Agents |-> NoEntries]
  /\ stopSeen = [a \in Agents |-> {}]
  /\ given = [a \in Agents |-> NoArgument]
  /\ delegation = [a \in Agents |-> constructDelegation(given[a])]
  /\ transportLog = [p \in Agents |-> logOf(registry, p)]
  /\ last = NoMessage

\* LocalTransport.send -> deliver: the receiving transport calls the handler
\* registered with onMessage, naming the sending peer.
Deliver(m) ==
  /\ m \in net
  /\ m.to \in DOMAIN registry
  /\ handleMessage(m.to, m.from, m.bytes, net \ {m})

MeshNext ==
  \/ \E a \in Requesters, i \in MeshRequestInputs :
       \E o \in SendOutcomes(i[1]) : Request(a, i[1], i[2], i[3], o)
  \/ \E m \in net : Deliver(m)
  \/ \E a \in ToolProviders, how \in {"return", "throwError", "throwOther"} :
       \E r \in running[a] :
         \E o1, o2 \in SendOutcomes(r.peer) : HandlerSettled(a, r, how, o1, o2)
  \/ \E t \in TaskIds : TimerFire(t)
  \/ \E t \in TaskIds : SendFailed(t)

MeshSpec == MeshInit /\ [][MeshNext]_vars

(***************************************************************************)
(* The receiving agent while handlers are suspended: handleMessage calls   *)
(* handleTask without awaiting it, so the transport may hand over further  *)
(* tasks, results and certificates before a handler has settled, and the   *)
(* handlers settle in any order.                                           *)
(***************************************************************************)
OverlapBytes ==
  {canonicalize([type |-> "task", envelope |-> outsiderEnvelope("echo", okPayload)]),
   canonicalize([type |-> "task",
                 envelope |-> createTaskEnvelope(identity["A"], 1, "B", "echo", okPayload, now)]),
   canonicalize([type |-> "task", envelope |-> outsiderEnvelope("nonexistent", okPayload)]),
   canonicalize([type |-> "response", response |-> craftedResponse(0)]),
   canonicalize([type |-> "cert-exchange", cert |-> craftedCert])}

\* The requester delivers its own envelope.
InboundFromSender(a, peer, bytes) ==
  /\ nInvoked < MaxInvocations
  /\ Receive(a, peer, bytes)

OverlapNext ==
  \/ \E a \in ToolProviders : \E bytes \in OverlapBytes : Inbound(a, bytes)
  \/ \E a \in ToolProviders :
       InboundFromSender(a, "A",
         canonicalize([type |-> "task",
                       envelope |-> createTaskEnvelope(identity["A"], 1, "B", "echo",
                                                       okPayload, now)]))
  \/ \E a \in ToolProviders, how \in {"return", "throwError", "throwOther"} :
       \E r \in running[a] :
         \E o1, o2 \in SendOutcomes(r.peer) : HandlerSettled(a, r, how, o1, o2)

OverlapSpec == MeshInit /\ [][OverlapNext]_vars

(***************************************************************************)
(* The same two agents when nothing fails: the peer is reachable, every    *)
(* transport.send resolves, the handler returns, and the answer travels    *)
(* well within the deadline, so no timer fires.  The transport delivers    *)
(* what it accepted and a handler that was started settles.                *)
(***************************************************************************)
LiveRequestInputs ==
  {<<"B", "echo", okPayload>>, <<"B", "echo", JObject([message |-> JString("again")])>>}

LiveRequest(a, i) == Request(a, i[1], i[2], i[3], "delivered")

HandlerReturns(a) ==
  \E r \in running[a] : HandlerSettled(a, r, "return", "delivered", "delivered")

Delivery == \E m \in net : Deliver(m)

LiveNext ==
  \/ \E a \in Requesters, i \in LiveRequestInputs : LiveRequest(a, i)
  \/ Delivery
  \/ \E a \in ToolProviders : HandlerReturns(a)

LiveSpec ==
  /\ MeshInit
  /\ [][LiveNext]_vars
  /\ WF_vars(Delivery)
  /\ \A a \in ToolProviders : WF_vars(HandlerReturns(a))

(***************************************************************************)
(* The two agents with the outside peer on the same transport: B answers   *)
(* the tasks of A, and the outside peer, which has seen the envelope on    *)
(* the wire, sends A results of its own making under its own peer id.      *)
(***************************************************************************)
Intrude(a, bytes) == Receive(a, Outsider, bytes)

IntruderNext ==
  \/ LiveNext
  \/ \E a \in Requesters : \E bytes \in ArrivingBytes : Intrude(a, bytes)
  \/ \E t \in TaskIds : TimerFire(t)

IntruderSpec == MeshInit /\ [][IntruderNext]_vars

(***************************************************************************)
(* Fleet recognition: agents constructed with or without a delegation      *)
(* certificate exchange their certificates and ask whether a certificate   *)
(* belongs to a sibling, while the clock moves past the expiry of the      *)
(* short-lived certificates.  Owners O and P each issue certificates.      *)
(***************************************************************************)
Owners == {"O", "P"}

fleetCert(owner, a, ttlMs) ==
  createDelegationCert(identity[owner], identity[a].publicKey, <<"*">>, ttlMs, 0)

\* Second argument of new Agent(transport, ...): nothing, a certificate, or
\* an AgentOptions object (identity?, delegation?, requestTimeoutMs?).
ConstructorArguments(a) ==
  {NoArgument,
   fleetCert("O", a, CertTtlMs),
   fleetCert("P", a, CertTtlMs),
   fleetCert("O", a, 2 * CertTtlMs),
   [delegation |-> fleetCert("O", a, CertTtlMs)],
   [identity |-> identity[a], delegation |-> fleetCert("O", a, CertTtlMs)],
   [requestTimeoutMs |-> requestTimeoutMs]}

\* Certificates a caller may hold: issued by either owner, short- or
\* long-lived, altered after signing, or with a field that is not hex.
CallerCerts ==
  {fleetCert("O", Outsider, CertTtlMs),
   fleetCert("O", Outsider, 2 * CertTtlMs),
   fleetCert("P", Outsider, 2 * CertTtlMs),
   [fleetCert("O", Outsider, 2 * CertTtlMs) EXCEPT !.scope = <<>>],
   [fleetCert("O", Outsider, 2 * CertTtlMs) EXCEPT !.signature = NotHex],
   [fleetCert("O", Outsider, CertTtlMs) EXCEPT !.signature = NotHex]}

returned(op, a, args, outcome) ==
  [op |-> op, agent |-> a, args |-> args, outcome |-> outcome]

isFleetSiblingOutcome(certA, certB, time) ==
  IF isFleetSiblingThrows(certA, certB, time)
    THEN "throws"
    ELSE IF isFleetSibling(certA, certB, time) THEN "true" ELSE "false"

checkFleetSibling(a, remoteCert) ==
  IF delegation[a] = NoDelegation
    THEN "false"
    ELSE isFleetSiblingOutcome(delegation[a], remoteCert, now)

getPeerCerts(a) == {peerCerts[a][p] : p \in DOMAIN peerCerts[a]}

FleetInit ==
  /\ now = 0
  /\ started = [a \in Agents |-> TRUE]
  /\ stopPc = [a \in Agents |-> "idle"]
  /\ registry = [p \in Agents |-> {}]
  /\ tools = [a \in Agents |-> NoEntries]
  /\ nextId = 1
  /\ requests = [t \in TaskIds |-> NoRequest]
  /\ pending = [a \in Agents |-> {}]
  /\ timers = [t \in TaskIds |-> "none"]
  /\ futures = [t \in TaskIds |-> NoFuture]
  /\ sends = [t \in TaskIds |-> "none"]
  /\ net = {}
  /\ running = [a \in Agents |-> {}]
  /\ nInvoked = 0
  /\ peerCerts = [a \in Agents |-> NoEntries]
  /\ stopSeen = [a \in Agents |-> {}]
  /\ given \in [Agents -> UNION {ConstructorArguments(a) : a \in Agents}]
  /\ \A a \in Agents : given[a] \in ConstructorArguments(a)
  /\ delegation = [a \in Agents |-> constructDelegation(given[a])]
  /\ transportLog = [p \in Agents |-> logOf(registry, p)]
  /\ last = NoMessage

\* Date.now() moves past the expiry of the short-lived certificates, and
\* then past that of the long-lived ones.
ClockAdvance ==
  /\ now < 2 * CertTtlMs
  /\ now' = now + CertTtlMs
  /\ last' = NoMessage
  /\ UNCHANGED <<started, stopPc, registry, tools, nextId, requests, pending, timers,
                 futures, sends, net, running, nInvoked, peerCerts, stopSeen,
                 delegation, given, transportLog>>

ExchangeCert(a, peer, outcome) ==
  /\ outcome \in SendOutcomes(peer)
  /\ IF delegation[a] = NoDelegation
       THEN /\ UNCHANGED net
            /\ last' = returned("exchangeCert", a, peer, "rejected")
       ELSE /\ net' = net \cup
                 accepted(a, peer,
                          canonicalize([type |-> "cert-exchange", cert |-> delegation[a]]),
                          outcome)
            /\ last' = returned("exchangeCert", a, peer,
                                IF outcome = "delivered" THEN "resolved" ELSE "rejected")
  /\ UNCHANGED <<now, started, stopPc, registry, tools, nextId, requests, pending,
                 timers, futures, sends, running, nInvoked, peerCerts, stopSeen,
                 delegation, given, transportLog>>

CheckFleetSibling(a, remoteCert) ==
  /\ last' = returned("checkFleetSibling", a, remoteCert, checkFleetSibling(a, remoteCert))
  /\ UNCHANGED <<now, started, stopPc, registry, tools, nextId, requests, pending,
                 timers, futures, sends, net, running, nInvoked, peerCerts, stopSeen,
                 delegation, given, transportLog>>

IsFleetSibling(certA, certB) ==
  /\ last' = returned("isFleetSibling", "caller", <<certA, certB>>,
                      isFleetSiblingOutcome(certA, certB, now))
  /\ UNCHANGED <<now, started, stopPc, registry, tools, nextId, requests, pending,
                 timers, futures, sends, net, running, nInvoked, peerCerts, stopSeen,
                 delegation, given, transportLog>>

FleetNext ==
  \/ ClockAdvance
  \/ \E a \in Agents : \E peer \in Agents \ {a} :
       \E outcome \in {"delivered", "rejected", "deliveredRejected"} :
         ExchangeCert(a, peer, outcome)
  \/ \E m \in net : Deliver(m)
  \/ \E a \in Agents : \E remoteCert \in getPeerCerts(a) \cup CallerCerts :
       CheckFleetSibling(a, remoteCert)
  \/ \E certA, certB \in CallerCerts : IsFleetSibling(certA, certB)

FleetSpec == FleetInit /\ [][FleetNext]_vars

(***************************************************************************)
(* A peer that presents certificates other than its own: B sends A, in a   *)
(* cert-exchange message under its own peer id, a certificate issued to    *)
(* the outside agent, and A is then asked about what it has cached.        *)
(***************************************************************************)
PresentCert(a, peer, cert) ==
  Receive(a, peer, canonicalize([type |-> "cert-exchange", cert |-> cert]))

PresentNext ==
  \/ ClockAdvance
  \/ \E cert \in CallerCerts : PresentCert("A", "B", cert)
  \/ \E a \in Agents : \E peer \in Agents \ {a} : ExchangeCert(a, peer, "delivered")
  \/ \E m \in net : Deliver(m)
  \/ \E remoteCert \in getPeerCerts("A") : CheckFleetSibling("A", remoteCert)

PresentSpec == FleetInit /\ [][PresentNext]_vars

(***************************************************************************)
(* The signing functions on their own: callers create, alter and verify    *)
(* signed structures and raw signatures at the current time, which moves   *)
(* past the expiry of the short-lived certificates.                        *)
(***************************************************************************)
Signers == {"A", "O"}
TtlArguments == {0 - 1, 0, CertTtlMs}
Scopes == {<<>>, <<"*">>}
Payloads == {okPayload, JNull}
Messages == {canonicalize([tool |-> "echo"]), canonicalize([tool |-> "other"])}

\* Signatures and keys handed to verify: well formed, or of the wrong length.
Signatures ==
  {sign(m, identity[n].secretKey) : m \in Messages, n \in Signers} \cup {ShortBytes}

PublicKeys == {identity[n].publicKey : n \in Signers} \cup {ShortBytes}

CreatedEnvelopes ==
  {createTaskEnvelope(identity[n], 1, "B", "echo", payload, 0) :
     n \in Signers, payload \in Payloads}

CreatedResponses ==
  {createTaskResponse(identity[n], 1, [echo |-> "hello"], 0) : n \in Signers}

CreatedCerts ==
  {createDelegationCert(identity[n], identity["B"].publicKey, scope, ttlMs, 0) :
     n \in Signers, scope \in Scopes, ttlMs \in TtlArguments \cup {2 * CertTtlMs}}

\* The fields of a signed structure other than its signature.
signedFields(structure) == DOMAIN structure \ {"signature"}

\* Other values for a field: another signer's key or this one in upper case
\* for a hex string, another number, string, payload, result or scope.
otherValues(structure, key) ==
  LET v == structure[key]
  IN  IF key \in {"from", "owner", "agent"}
        THEN {bytesToHex(identity[Outsider].publicKey), toUpperCase(v)}
        ELSE IF key \in {"taskId", "timestamp", "issuedAt", "expiresAt"}
          THEN {v + 1}
          ELSE IF key \in {"to", "tool"}
            THEN {"other"}
            ELSE IF key = "payload"
              THEN Payloads \ {v}
              ELSE IF key = "scope" THEN Scopes \ {v} ELSE {[echo |-> "altered"]}

\* Other well-formed signatures: by another key, over another message, of
\* another structure, or the same hex digits in upper case.
otherSignatures(structure) ==
  {bytesToHex(sign(canonicalize(withoutSignature(structure)), identity[Outsider].secretKey)),
   bytesToHex(sign(canonicalize([tool |-> "other"]), identity["A"].secretKey)),
   bytesToHex(sign(canonicalize([tool |-> "other"]), identity["O"].secretKey)),
   toUpperCase(structure.signature)}

verifyTaskEnvelopeOutcome(envelope) ==
  IF verifyTaskEnvelopeThrows(envelope)
    THEN "throws"
    ELSE IF verifyTaskEnvelope(envelope) THEN "true" ELSE "false"

verifyTaskResponseOutcome(response) ==
  IF verifyTaskResponseThrows(response)
    THEN "throws"
    ELSE IF verifyTaskResponse(response) THEN "true" ELSE "false"

verifyDelegationCertOutcome(cert, time) ==
  IF verifyDelegationCertThrows(cert, time)
    THEN "throws"
    ELSE IF verifyDelegationCert(cert, time) THEN "true" ELSE "false"

\* The verify function that goes with a structure, told by its fields.
verifyOutcome(structure, time) ==
  IF "owner" \in DOMAIN structure
    THEN verifyDelegationCertOutcome(structure, time)
    ELSE IF "result" \in DOMAIN structure
      THEN verifyTaskResponseOutcome(structure)
      ELSE verifyTaskEnvelopeOutcome(structure)

CryptoInit ==
  /\ now = 0
  /\ started = [a \in Agents |-> FALSE]
  /\ stopPc = [a \in Agents |-> "idle"]
  /\ registry = NoEntries
  /\ tools = [a \in Agents |-> NoEntries]
  /\ nextId = 1
  /\ requests = [t \in TaskIds |-> NoRequest]
  /\ pending = [a \in Agents |-> {}]
  /\ timers = [t \in TaskIds |-> "none"]
  /\ futures = [t \in TaskIds |-> NoFuture]
  /\ sends = [t \in TaskIds |-> "none"]
  /\ net = {}
  /\ running = [a \in Agents |-> {}]
  /\ nInvoked = 0
  /\ peerCerts = [a \in Agents |-> NoEntries]
  /\ stopSeen = [a \in Agents |-> {}]
  /\ given = [a \in Agents |-> NoArgument]
  /\ delegation = [a \in Agents |-> constructDelegation(given[a])]
  /\ transportLog = [p \in Agents |-> logOf(registry, p)]
  /\ last = NoMessage

called(op, args, outcome) ==
  /\ last' = returned(op, "caller", args, outcome)
  /\ UNCHANGED <<now, started, stopPc, registry, tools, nextId, requests, pending,
                 timers, futures, sends, net, running, nInvoked, peerCerts, stopSeen,
                 delegation, given, transportLog>>

Sign(message, n) ==
  called("sign", <<message, n>>, sign(message, identity[n].secretKey))

\* Variant of verify without the try/catch around ed.verify.
VerifyUncaught(signature, message, publicKey) ==
  called("verify", <<signature, message, publicKey>>,
         IF edVerifyThrows(signature, publicKey)
           THEN "throws"
           ELSE IF edVerify(signature, message, publicKey) THEN "true" ELSE "false")

Verify(signature, message, publicKey) ==
  called("verify", <<signature, message, publicKey>>,
         IF verify(signature, message, publicKey) THEN "true" ELSE "false")

CreateTaskEnvelope(n, taskId, payload) ==
  called("createTaskEnvelope", <<n, taskId, payload>>,
         createTaskEnvelope(identity[n], taskId, "B", "echo", payload, now))

CreateTaskResponse(n, taskId, result) ==
  called("createTaskResponse", <<n, taskId, result>>,
         createTaskResponse(identity[n], taskId, result, now))

CreateDelegationCert(n, scope, ttlMs) ==
  called("createDelegationCert", <<n, scope, ttlMs>>,
         createDelegationCert(identity[n], identity["B"].publicKey, scope, ttlMs, now))

VerifyDelegationCert(cert) ==
  called("verifyDelegationCert", cert, verifyDelegationCertOutcome(cert, now))

\* A structure is verified after one of its signed fields was given another
\* value, or after its signature was replaced.
VerifyAltered(structure, key, value) ==
  called("verifyAltered", <<structure, key, value>>,
         verifyOutcome([structure EXCEPT ![key] = value], now))

CryptoNext ==
  \/ ClockAdvance
  \/ \E message \in Messages, n \in Signers : Sign(message, n)
  \/ \E signature \in Signatures, message \in Messages, publicKey \in PublicKeys :
       Verify(signature, message, publicKey)
  \/ \E n \in Signers, taskId \in TaskIds, payload \in Payloads :
       CreateTaskEnvelope(n, taskId, payload)
  \/ \E n \in Signers, taskId \in TaskIds : CreateTaskResponse(n, taskId, [echo |-> "hello"])
  \/ \E n \in Signers, scope \in Scopes, ttlMs \in TtlArguments :
       CreateDelegationCert(n, scope, ttlMs)
  \/ \E cert \in CreatedCerts \cup {[c EXCEPT !.signature = NotHex] : c \in CreatedCerts} :
       VerifyDelegationCert(cert)
  \/ \E structure \in CreatedEnvelopes \cup CreatedResponses \cup CreatedCerts :
       \/ \E key \in signedFields(structure) :
            \E value \in otherValues(structure, key) : VerifyAltered(structure, key, value)
       \/ \E value \in otherSignatures(structure) :
            VerifyAltered(structure, "signature", value)

CryptoSpec == CryptoInit /\ [][CryptoNext]_vars

(***************************************************************************)
(* canonicalize on arbitrary values: serialize.ts.  The protocol records   *)
(* above are functions and carry no insertion order; here a value is a     *)
(* scalar, an array, or an object given by its entries in the order they   *)
(* were inserted.  A JavaScript object lists its keys with the integer     *)
(* keys first, in ascending numeric order, and then the other keys in      *)
(* insertion order; Array.prototype.sort orders strings by code unit.      *)
(***************************************************************************)
Keys == {"10", "9", "a", "b"}

\* Position of a key in code-unit order: "10" < "9" < "a" < "b".
codeUnitOrder == <<"10", "9", "a", "b">>
codeUnitRank == [k \in Keys |-> CHOOSE i \in DOMAIN codeUnitOrder : codeUnitOrder[i] = k]

\* The integer keys and their numeric order: 9 < 10.
integerOrder == <<"9", "10">>
isIntegerKey(k) == \E i \in DOMAIN integerOrder : integerOrder[i] = k
integerRank == [k \in {"9", "10"} |-> CHOOSE i \in DOMAIN integerOrder : integerOrder[i] = k]

scalar(text) == [t |-> "scalar", text |-> text]
array(items) == [t |-> "array", items |-> items]
object(entries) == [t |-> "object", entries |-> entries]

RECURSIVE inOrder(_, _)
inOrder(S, rank) ==
  IF S = {}
    THEN <<>>
    ELSE LET k == CHOOSE k \in S : \A j \in S : rank[k] <= rank[j]
         IN  <<k>> \o inOrder(S \ {k}, rank)

insertedKeys(entries) == [i \in DOMAIN entries |-> entries[i][1]]
keySet(entries) == {entries[i][1] : i \in DOMAIN entries}
get(entries, k) == entries[CHOOSE i \in DOMAIN entries : entries[i][1] = k][2]

\* Object.keys, and the order in which JSON.stringify visits the properties.
ownKeys(entries) ==
  inOrder({k \in keySet(entries) : isIntegerKey(k)}, integerRank)
    \o SelectSeq(insertedKeys(entries), LAMBDA k : ~isIntegerKey(k))

\* Object.keys(value).sort()
sortedKeys(entries) == inOrder(keySet(entries), codeUnitRank)

RECURSIVE sortKeysValue(_)
sortKeysValue(value) ==
  IF value.t = "array"
    THEN array([i \in DOMAIN value.items |-> sortKeysValue(value.items[i])])
    ELSE IF value.t = "object"
      THEN LET keys == sortedKeys(value.entries)
           IN  object([i \in DOMAIN keys |->
                         <<keys[i], sortKeysValue(get(value.entries, keys[i]))>>])
      ELSE value

RECURSIVE joined(_, _)
joined(texts, separator) ==
  IF texts = <<>>
    THEN <<>>
    ELSE IF Len(texts) = 1
      THEN texts[1]
      ELSE texts[1] \o <<separator>> \o joined(Tail(texts), separator)

\* JSON.stringify without an indent argument: the text as a sequence of
\* tokens, none of them white space.
RECURSIVE JSONstringify(_)
JSONstringify(value) ==
  IF value.t = "array"
    THEN <<"[">> \o joined([i \in DOMAIN value.items |-> JSONstringify(value.items[i])], ",")
           \o <<"]">>
    ELSE IF value.t = "object"
      THEN LET keys == ownKeys(value.entries)
           IN  <<"{">>
                 \o joined([i \in DOMAIN keys |->
                              <<keys[i], ":">> \o JSONstringify(get(value.entries, keys[i]))],
                           ",")
                 \o <<"}">>
      ELSE <<value.text>>

\* TextEncoder.encode: the UTF-8 bytes of the text.
encode(text) == [utf8 |-> text]

canonicalizeValue(value) == encode(JSONstringify(sortKeysValue(value)))

\* Values handed to canonicalize: objects of two keys in either insertion
\* order, alone, inside an array, and inside an array inside an object.
ScalarValues == {scalar("1"), scalar("2")}

FlatObjects ==
  {object(<<<<k1, v1>>, <<k2, v2>>>>) :
     k1 \in Keys, k2 \in Keys, v1 \in ScalarValues, v2 \in ScalarValues} \
  {object(<<<<k, v1>>, <<k, v2>>>>) : k \in Keys, v1 \in ScalarValues, v2 \in ScalarValues}

EncodeInputs ==
  FlatObjects
  \cup {array(<<o>>) : o \in FlatObjects}
  \cup {object(<<<<"a", array(<<o>>)>>, <<"b", scalar("1")>>>>) : o \in FlatObjects}
  \cup {object(<<<<"b", scalar("1")>>, <<"a", array(<<o>>)>>>>) : o \in FlatObjects}

Canonicalize(value) == called("canonicalize", value, canonicalizeValue(value))

EncodeNext == \E value \in EncodeInputs : Canonicalize(value)

EncodeSpec == CryptoInit /\ [][EncodeNext]_vars

(***************************************************************************)
(* ToolRegistry on its own: tools.ts.  A caller registers tools, some of   *)
(* them again under a name already taken, with another definition or       *)
(* another handler.                                                        *)
(***************************************************************************)
getHandler(entries, toolName) ==
  IF toolName \in DOMAIN entries THEN entries[toolName].handler ELSE Undefined

getTool(entries, toolName) ==
  IF toolName \in DOMAIN entries THEN entries[toolName].tool ELSE Undefined

summarizeTool == [name |-> "summarize", description |-> "Summarizes text"]

RegistryTools ==
  {echoTool, [echoTool EXCEPT !.description = "Echoes twice"], LLM_MESSAGE_TOOL,
   summarizeTool}

ToolNames == {tool.name : tool \in RegistryTools} \cup {"nonexistent"}
\* The handlers are function values, each equal to itself only.
Handlers == {[function |-> "echoHandler"], [function |-> "llmHandler"]}

Register(a, tool, handler) ==
  /\ tools' = [tools EXCEPT ![a] = register(@, tool, handler)]
  /\ last' = returned("register", a, <<tool, handler>>, "undefined")
  /\ UNCHANGED <<now, started, stopPc, registry, nextId, requests, pending, timers,
                 futures, sends, net, running, nInvoked, peerCerts, stopSeen,
                 delegation, given, transportLog>>

RegistryNext ==
  \E a \in Agents, tool \in RegistryTools, handler \in Handlers :
    Register(a, tool, handler)

RegistrySpec == CryptoInit /\ [][RegistryNext]_vars

(***************************************************************************)
(* validatePayload on its own: standard-tools.ts.  Callers validate        *)
(* payloads of every JSON type against tools without a schema, with a      *)
(* required list and no properties, and with one required field of each    *)
(* declared type.                                                          *)
(***************************************************************************)
DeclaredTypes == {"string", "number", "integer", "boolean", "array", "object"}

customTool == [name |-> "custom", description |-> "Custom tool"]

\* a tool whose schema requires the field f with the declared type
typedTool(type) ==
  [name |-> "typed", description |-> "Typed tool",
   parameters |-> [type |-> "object", required |-> <<"f">>,
                   properties |-> [f |-> [type |-> type]]]]

ValidatedTools ==
  {customTool, LLM_MESSAGE_TOOL}
  \cup {typedTool(type) : type \in DeclaredTypes}
  \cup {[name |-> "listed", description |-> "Required without properties",
         parameters |-> [type |-> "object", required |-> <<"f", "g">>]],
        [name |-> "pair", description |-> "Two required fields",
         parameters |-> [type |-> "object", required |-> <<"f", "g">>,
                         properties |-> [f |-> [type |-> "string"],
                                         g |-> [type |-> "number"]]]]}

FieldValues ==
  {JString("x"), JNumber(1), JBoolean(TRUE), JArray, JObject(NoEntries), JNull}

ValidatedPayloads ==
  {JNull, JArray, JString("string"), JNumber(1), JBoolean(TRUE), JObject(NoEntries),
   JObject([foo |-> JNumber(1)]), JObject([text |-> JString("hi")]),
   JObject([g |-> JNumber(1)])}
  \cup {JObject([f |-> v]) : v \in FieldValues}
  \cup {JObject([f |-> v, g |-> JNumber(2)]) : v \in {JString("x"), JNumber(1)}}
  \cup {JObject([f |-> JString("x"), g |-> JString("y")])}

ValidatePayload(tool, payload) ==
  called("validatePayload", <<tool, payload>>, validatePayload(tool, payload))

ValidateNext ==
  \E tool \in ValidatedTools, payload \in ValidatedPayloads : ValidatePayload(tool, payload)

ValidateSpec == CryptoInit /\ [][ValidateNext]_vars

(***************************************************************************)
(* LocalTransport on its own and under its agent: local.ts.  Callers       *)
(* start and stop the transports, directly or through Agent.start and      *)
(* Agent.stop, advertise tool lists, look tools up and send raw bytes.     *)
(* The transport of agent a has the peer id a.                             *)
(***************************************************************************)
discoverIn(reg, toolName) ==
  {pid \in DOMAIN reg : \E t \in reg[pid] : t.name = toolName}

discover(toolName) == discoverIn(registry, toolName)

AdvertisedLists == {{}, {echoTool}, {echoTool, summarizeTool}}
Peers == Agents \cup {"nobody"}

\* Variant of start() that keeps the advertised list of an earlier run; the
\* map of lists outlives the registry entries.
TransportStartKeepsTools(p) ==
  /\ registry' =
       IF p \in DOMAIN registry
         THEN registry
         ELSE [q \in DOMAIN registry \cup {p} |->
                 IF q = p
                   THEN IF transportLog[p].advertised = NoAdvertisement
                          THEN {}
                          ELSE transportLog[p].advertised.tools
                   ELSE registry[q]]
  /\ transportLog' = [transportLog EXCEPT ![p] = logStart(@)]
  /\ last' = returned("start", p, <<>>, "resolved")
  /\ UNCHANGED <<now, started, stopPc, tools, nextId, requests, pending, timers,
                 futures, sends, net, running, nInvoked, peerCerts, stopSeen,
                 delegation, given>>

TransportStart(p) ==
  /\ registry' =
       IF p \in DOMAIN registry
         THEN registry
         ELSE [q \in DOMAIN registry \cup {p} |-> IF q = p THEN {} ELSE registry[q]]
  /\ transportLog' = [transportLog EXCEPT ![p] = logStart(@)]
  /\ last' = returned("start", p, <<>>, "resolved")
  /\ UNCHANGED <<now, started, stopPc, tools, nextId, requests, pending, timers,
                 futures, sends, net, running, nInvoked, peerCerts, stopSeen,
                 delegation, given>>

TransportStop(p) ==
  /\ registry' = [q \in DOMAIN registry \ {p} |-> registry[q]]
  /\ transportLog' = [transportLog EXCEPT ![p] = logStop(@)]
  /\ last' = returned("stop", p, <<>>, "resolved")
  /\ UNCHANGED <<now, started, stopPc, tools, nextId, requests, pending, timers,
                 futures, sends, net, running, nInvoked, peerCerts, stopSeen,
                 delegation, given>>

Advertise(p, toolList) ==
  /\ IF p \in DOMAIN registry
       THEN /\ registry' = [registry EXCEPT ![p] = toolList]
            /\ transportLog' = [transportLog EXCEPT ![p] = logAdvertise(@, toolList)]
            /\ last' = returned("advertise", p, toolList, "resolved")
       ELSE /\ UNCHANGED <<registry, transportLog>>
            /\ last' = returned("advertise", p, toolList, "rejected")
  /\ UNCHANGED <<now, started, stopPc, tools, nextId, requests, pending, timers,
                 futures, sends, net, running, nInvoked, peerCerts, stopSeen,
                 delegation, given>>

Discover(p, toolName) ==
  /\ last' = returned("discover", p, toolName, discover(toolName))
  /\ UNCHANGED <<now, started, stopPc, registry, tools, nextId, requests, pending,
                 timers, futures, sends, net, running, nInvoked, peerCerts, stopSeen,
                 delegation, given, transportLog>>

\* send() of raw bytes that are not a wire message: the handler of the
\* receiving agent, if it has one, returns without any effect.
TransportSend(p, peerId) ==
  /\ last' = returned("send", p, peerId,
                      IF peerId \in DOMAIN registry THEN "resolved" ELSE "rejected")
  /\ UNCHANGED <<now, started, stopPc, registry, tools, nextId, requests, pending,
                 timers, futures, sends, net, running, nInvoked, peerCerts, stopSeen,
                 delegation, given, transportLog>>

TransportNext ==
  \/ \E a \in ToolProviders : RegisterTool(a, echoTool, "echoHandler")
  \/ \E a \in ToolProviders : Start(a)
  \/ \E a \in ToolProviders : StopBegin(a)
  \/ \E a \in ToolProviders : StopFinish(a)
  \/ \E p \in Agents : TransportStart(p)
  \/ \E p \in Agents : TransportStop(p)
  \/ \E p \in Agents, toolList \in AdvertisedLists : Advertise(p, toolList)
  \/ \E p \in Agents, toolName \in {"echo", "summarize"} : Discover(p, toolName)
  \/ \E p \in Agents, peerId \in Peers : TransportSend(p, peerId)

TransportSpec == CryptoInit /\ [][TransportNext]_vars

(***************************************************************************)
(* The lifecycle of the agents: callers register a tool, start and stop    *)
(* each agent any number of times, in any order, and look the agents up    *)
(* and send to them meanwhile.  Nothing is started at first.               *)
(***************************************************************************)
StartCalled(a) ==
  /\ start(a)
  /\ last' = returned("start", a, <<>>, IF started[a] THEN "already started" ELSE "started")
  /\ UNCHANGED <<now, stopPc, tools, nextId, requests, pending, timers,
                 futures, sends, net, running, nInvoked, peerCerts, stopSeen, delegation, given>>

LifecycleNext ==
  \/ \E a \in Agents : RegisterTool(a, echoTool, "echoHandler")
  \/ \E a \in Agents : StartCalled(a)
  \/ \E a \in Agents : StopBegin(a)
  \/ \E a \in Agents : StopFinish(a)
  \/ \E p \in Agents : Discover(p, "echo")
  \/ \E p \in Agents, peerId \in Agents : TransportSend(p, peerId)

LifecycleSpec == CryptoInit /\ [][LifecycleNext]_vars

(***************************************************************************)
(* Two agents on the in-memory transport, whose send() hands the bytes to  *)
(* the handler of the target before it returns: B.handleMessage, and       *)
(* handleTask up to its first await, run inside the transport.send call of *)
(* A.request; an error reply of B is sent from there, so A.handleMessage   *)
(* and handleResponse run inside that call too.  A valid task is answered  *)
(* later, when the handler has settled.                                    *)
(***************************************************************************)
SyncRequestInputs == MeshRequestInputs \cup {<<"nobody", "echo", okPayload>>}

\* Variant in which transport.send is called before this.pending.set.
pendingAtSendBeforeSet(a, t) == pending[a]

\* this.pending at the moment request() calls transport.send.
pendingAtSend(a, t) == pending[a] \cup {t}

\* The error that handleTask answers with, without running the handler.
taskError(a, envelope) ==
  LET decision == taskDecision(a, envelope)
  IN  IF decision = "invalid signature" THEN <<"invalid signature">>
      ELSE IF decision = "unknown tool" THEN <<"unknown tool", envelope.tool>>
      ELSE validatePayload(tools[a][envelope.tool].tool, envelope.payload).error

RequestInsideSend(a, peer, tool, payload) ==
  /\ nextId <= MaxTasks
  /\ LET t == nextId
         envelope == createTaskEnvelope(identity[a], t, peer, tool, payload, now)
         table == pendingAtSend(a, t)
         reached == peer \in DOMAIN registry
         decision == IF reached THEN taskDecision(peer, envelope) ELSE "none"
         replied == decision \in {"invalid signature", "unknown tool", "invalid payload"}
         response == createTaskResponse(identity[peer], t, [error |-> taskError(peer, envelope)],
                                        now)
         found == replied /\ a \in DOMAIN registry /\ t \in table
     IN  /\ requests' = [requests EXCEPT ![t] =
                           [agent |-> a, peer |-> peer, envelope |-> envelope,
                            timeoutMs |-> requestTimeoutMs]]
         /\ sends' = [sends EXCEPT ![t] = IF reached THEN "ok" ELSE "failing"]
         /\ IF decision = "execute"
              THEN /\ running' = [running EXCEPT ![peer] = @ \cup
                                    {[n |-> nInvoked + 1, peer |-> a, envelope |-> envelope,
                                      handler |-> tools[peer][envelope.tool].handler]}]
                   /\ nInvoked' = nInvoked + 1
              ELSE UNCHANGED <<running, nInvoked>>
         /\ pending' = [pending EXCEPT ![a] = IF found THEN @ \ {t} ELSE @ \cup {t}]
         /\ timers' = [timers EXCEPT ![t] = IF found THEN "cleared" ELSE "armed"]
         /\ futures' = [futures EXCEPT ![t] =
                          IF found THEN responseOutcome(PendingFuture, response)
                                   ELSE PendingFuture]
         /\ last' = handled("request", a, peer, envelope,
                            IF replied THEN <<response>> ELSE <<>>, "none")
  /\ nextId' = nextId + 1
  /\ UNCHANGED <<now, started, stopPc, registry, tools, net, peerCerts, stopSeen,
                 delegation, given, transportLog>>

SyncNext ==
  \/ \E a \in Requesters, i \in SyncRequestInputs : RequestInsideSend(a, i[1], i[2], i[3])
  \/ \E a \in ToolProviders, how \in {"return", "throwError", "throwOther"} :
       \E r \in running[a] :
         \E o1, o2 \in SendOutcomes(r.peer) : HandlerSettled(a, r, how, o1, o2)
  \/ \E m \in net : Deliver(m)
  \/ \E t \in TaskIds : TimerFire(t)
  \/ \E t \in TaskIds : SendFailed(t)

SyncSpec == MeshInit /\ [][SyncNext]_vars

(***************************************************************************)
(* Properties of the requesting agent, checked under Spec.                 *)
(***************************************************************************)
issued(t) == requests[t] # NoRequest
inTable(t) == issued(t) /\ t \in pending[requests[t].agent]
settled(t) == futures[t].state \in {"resolved", "rejected"}
responseVerifies(r) == ~verifyTaskResponseThrows(r) /\ verifyTaskResponse(r)
envelopeVerifies(e) == ~verifyTaskEnvelopeThrows(e) /\ verifyTaskEnvelope(e)

\* C1: the future of a request resolves only with a result that carries the
\* task id of the request's own envelope and passes verifyTaskResponse.
C1_ResolvedOnlyWithVerifiedMatchingResult ==
  \A t \in TaskIds :
    futures[t].state = "resolved" =>
      /\ futures[t].value.taskId = requests[t].envelope.taskId
      /\ responseVerifies(futures[t].value)

\* A request resolved by the response that was just handled.
C1_Witness ==
  /\ last.op = "response"
  /\ last.msg.taskId \in TaskIds
  /\ futures[last.msg.taskId] = resolved(last.msg)

\* C2: a request settles at most once: once its entry has left the table, or
\* its future is settled, no later event changes the future, the table entry or
\* the timer of that request.
C2_SettlesAtMostOnce ==
  [][\A t \in TaskIds :
       (issued(t) /\ (settled(t) \/ ~inTable(t))) =>
         /\ futures'[t] = futures[t]
         /\ ~inTable(t)'
         /\ timers'[t] = timers[t]]_vars

\* C3: when a result arrives whose task id matches a table entry, the same step
\* removes the entry, cancels the timer and settles the future: resolved with the
\* result if it verifies, rejected with the invalid-signature error in every
\* other case, whatever the signature and from fields contain.
C3_MatchingResultSettlesInOneStep ==
  [][(last'.op = "response" /\ last'.msg.taskId \in pending[last'.agent]) =>
       LET t == last'.msg.taskId
       IN  /\ t \notin pending'[last'.agent]
           /\ timers'[t] = "cleared"
           /\ futures'[t] = IF responseVerifies(last'.msg)
                              THEN resolved(last'.msg)
                              ELSE rejected("Invalid task response signature")]_vars

\* C4: when stop() completes, every request that was pending when it was called
\* or became pending while it ran has been rejected with the stopped error, the
\* table is empty and the timers of those requests are cancelled.
C4_StopRejectsEveryPendingRequest ==
  [][\A a \in Agents :
       (stopPc[a] = "stopping" /\ stopPc'[a] = "done") =>
         /\ pending'[a] = {}
         /\ \A t \in stopSeen[a] :
              /\ timers'[t] # "armed"
              /\ futures'[t] = rejected("Agent stopped")]_vars

\* C5: stop() has rejected every still-pending future by the time it invokes
\* transport.stop().
C5_RejectsBeforeTransportStop ==
  [][\A a \in Agents :
       (stopPc[a] # "stopping" /\ stopPc'[a] = "stopping") =>
         \A t \in pending[a] : futures'[t] = rejected("Agent stopped")]_vars

\* C6: the timer of a request is armed with the default delay of 30000 ms; when
\* it fires, the still-pending future is rejected with the timeout error and the
\* entry is removed; from then on nothing, a late result included, changes the
\* future, the table entry or the timer.
C6_TimeoutRejectsAndLateResultIsDiscarded ==
  [][\A t \in TaskIds :
       /\ (timers[t] = "armed" /\ timers'[t] = "fired") =>
            /\ requests[t].timeoutMs = requestTimeoutMs
            /\ futures[t] = PendingFuture
            /\ futures'[t] = rejected("Request timed out")
            /\ ~inTable(t)'
       /\ timers[t] = "fired" =>
            /\ futures'[t] = rejected("Request timed out")
            /\ ~inTable(t)'
            /\ timers'[t] = "fired"]_vars

\* The send succeeded, the timer fired, and a verifying result for the request
\* has just been handled and discarded.
C6_Witness ==
  \E t \in TaskIds :
    /\ sends[t] = "ok"
    /\ timers[t] = "fired"
    /\ futures[t] = rejected("Request timed out")
    /\ last.op = "response"
    /\ last.msg.taskId = t
    /\ responseVerifies(last.msg)

\* C7 as stated: when transport.send fails, the future is rejected, the timer is
\* cancelled and no table entry remains.
C7_SendFailureRejects ==
  [][\A t \in TaskIds :
       (sends[t] = "failing" /\ sends'[t] = "failed") =>
         /\ futures'[t].state = "rejected"
         /\ timers'[t] # "armed"
         /\ ~inTable(t)']_vars

\* C7 amended: when transport.send fails, a future that is still unsettled is
\* rejected with the send error and a future that is already settled keeps its
\* outcome; in both cases the timer is no longer armed and no table entry
\* remains.
C7_SendFailureRejectsIfUnsettled ==
  [][\A t \in TaskIds :
       (sends[t] = "failing" /\ sends'[t] = "failed") =>
         /\ futures'[t] = IF futures[t] = PendingFuture
                            THEN rejected("send failed")
                            ELSE futures[t]
         /\ timers'[t] # "armed"
         /\ ~inTable(t)']_vars

\* A send has failed and its request was rejected with the send error.
C7_Witness ==
  \E t \in TaskIds :
    /\ sends[t] = "failed"
    /\ futures[t] = rejected("send failed")
    /\ timers[t] = "cleared"

\* C8: a result whose task id matches no table entry is discarded: the table,
\* the timers, the certificate cache and every future are unchanged, nothing is
\* sent, and verification is not attempted (so nothing is raised, even for a
\* signature that is not hexadecimal).
C8_UnmatchedResultIsDiscarded ==
  [][(last'.op = "response" /\ last'.msg.taskId \notin pending[last'.agent]) =>
       /\ UNCHANGED <<pending, timers, futures, peerCerts, sends, requests>>
       /\ net' \subseteq net
       /\ last'.sent = <<>>
       /\ last'.threw = "none"]_vars

\* A result with a signature that is not hexadecimal was discarded without
\* anything being raised.
C8_Witness ==
  /\ last.op = "response"
  /\ last.msg.signature = NotHex
  /\ last.threw = "none"

signedBy(r, a) == r.from = bytesToHex(identity[a].publicKey) /\ responseVerifies(r)

\* A request for a tool its peer has not registered is answered, without a
\* handler running, with a result for the same task id signed by the peer whose
\* error is <<label, tool name>>, and the requester's future resolves with it.
unknownToolAnswered(label) ==
  /\ (/\ last'.op = "task"
      /\ envelopeVerifies(last'.msg)
      /\ ~has(tools[last'.agent], last'.msg.tool)) =>
        /\ nInvoked' = nInvoked
        /\ running' = running
        /\ Len(last'.sent) = 1
        /\ last'.sent[1].taskId = last'.msg.taskId
        /\ signedBy(last'.sent[1], last'.agent)
        /\ last'.sent[1].result = [error |-> <<label, last'.msg.tool>>]
  /\ \A t \in TaskIds :
       (issued(t) /\ ~has(tools[requests[t].peer], requests[t].envelope.tool)) =>
         /\ (/\ last'.op = "response"
             /\ last'.msg.taskId = t
             /\ t \in pending[last'.agent]) => futures'[t] = resolved(last'.msg)
         /\ futures'[t].state = "resolved" =>
              /\ signedBy(futures'[t].value, requests[t].peer)
              /\ futures'[t].value.taskId = t
              /\ futures'[t].value.result =
                   [error |-> <<label, requests[t].envelope.tool>>]

\* C11 as stated: the error of the result reads "unknown capability: <name>".
C11_UnknownCapabilityAnswered == [][unknownToolAnswered("unknown capability")]_vars

\* C11 amended: when A requests a tool that B never registered, no handler runs
\* on B and A's request resolves with a result signed by B that verifies and whose
\* error reads "unknown tool: <name>" for the requested name.
C11_UnknownToolAnswered == [][unknownToolAnswered("unknown tool")]_vars

\* A's request for the unregistered tool has resolved with B's error result and
\* no handler has run.
C11_Witness ==
  \E t \in TaskIds :
    /\ futures[t].state = "resolved"
    /\ futures[t].value.result = [error |-> <<"unknown tool", "nonexistent">>]
    /\ signedBy(futures[t].value, "B")
    /\ nInvoked = 0

\* C13: when a handler fails, the receiver hands to the transport a result for
\* the same task id, signed by the receiver, whose error is the description of
\* the failure; when that result reaches the requester, the future resolves with
\* it (it is not rejected).
C13_HandlerFailureIsAnswered ==
  [][/\ last'.op = "handlerFailed" =>
          /\ Len(last'.sent) = 1
          /\ last'.sent[1].taskId = last'.msg.taskId
          /\ signedBy(last'.sent[1], last'.agent)
          /\ \E how \in {"throwError", "throwOther"} :
               last'.sent[1].result = [error |-> failureDescription(how)]
     /\ (/\ last'.op = "response"
         /\ last'.msg.taskId \in pending[last'.agent]
         /\ responseVerifies(last'.msg)
         /\ "error" \in DOMAIN last'.msg.result) =>
          futures'[last'.msg.taskId] = resolved(last'.msg)]_vars

\* A's request has resolved with the signed description of the failure of B's
\* handler.
C13_Witness ==
  \E t \in TaskIds :
    /\ futures[t].state = "resolved"
    /\ signedBy(futures[t].value, "B")
    /\ futures[t].value.taskId = t
    /\ futures[t].value.result = [error |-> failureDescription("throwError")]

(***************************************************************************)
(* Properties of two agents when nothing fails, checked under LiveSpec.    *)
(***************************************************************************)
\* The value the handler registered at the peer returns for request t.
handlerValue(t) ==
  handlerResult(tools[requests[t].peer][requests[t].envelope.tool].handler,
                requests[t].envelope.payload)

resolvedWithHandlerValue(t) ==
  /\ futures[t].state = "resolved"
  /\ futures[t].value.taskId = requests[t].envelope.taskId
  /\ signedBy(futures[t].value, requests[t].peer)
  /\ futures[t].value.result = handlerValue(t)

C9_HandlerOnlyAfterThreeChecks ==
  [][/\ (nInvoked' # nInvoked \/ running' # running) =>
          \/ last'.op \in {"handlerSettled", "handlerFailed"} /\ nInvoked' = nInvoked
          \/ /\ last'.op = "task"
             /\ nInvoked' = nInvoked + 1
             /\ envelopeVerifies(last'.msg)
             /\ has(tools[last'.agent], last'.msg.tool)
             /\ validatePayload(tools[last'.agent][last'.msg.tool].tool,
                                last'.msg.payload).valid
     /\ (last'.op = "task" /\ nInvoked' = nInvoked /\ last'.sent # <<>>) =>
          LET e == last'.msg
              error == last'.sent[1].result.error
          IN  IF ~envelopeVerifies(e) THEN error = <<"invalid signature">>
              ELSE IF ~has(tools[last'.agent], e.tool) THEN error = <<"unknown tool", e.tool>>
              ELSE error = validatePayload(tools[last'.agent][e.tool].tool, e.payload).error
    ]_vars

\* Two handlers have been invoked, the second for the envelope just handled.
C9_Witness ==
  /\ last.op = "task"
  /\ nInvoked = MaxInvocations
  /\ \E r \in running[last.agent] : r.n = nInvoked /\ r.envelope = last.msg

\* C10: for an envelope whose signature does not verify, the receiver hands to
\* the transport, addressed to the delivering peer, a result for the same task id
\* that is signed by the receiver and carries the invalid-signature error, also
\* when the capability is unknown or the payload invalid.
C10_InvalidSignatureIsAnswered ==
  [][(last'.op = "task" /\ ~envelopeVerifies(last'.msg)) =>
       /\ Len(last'.sent) = 1
       /\ last'.sent[1].taskId = last'.msg.taskId
       /\ last'.sent[1].from = bytesToHex(identity[last'.agent].publicKey)
       /\ responseVerifies(last'.sent[1])
       /\ last'.sent[1].result = [error |-> <<"invalid signature">>]
       /\ nInvoked' = nInvoked]_vars

\* C14: handling a task whose envelope is well formed never raises and never
\* leaves an unhandled failure, whatever its outcome (invalid signature, unknown
\* tool, invalid payload, handler failure, success) and whatever transport.send
\* does while replying.
C14_TaskHandlingNeverRaises ==
  [][(/\ last'.op \in {"task", "handlerSettled", "handlerFailed"}
      /\ ~verifyTaskEnvelopeThrows(last'.msg)) =>
       last'.threw = "none"]_vars

\* The bytes do not decode, or decode to a value that is not a wire message.
notWireMessage(bytes) ==
  JSONparseThrows(bytes) \/ ~isValidWireMessage(JSONparse(bytes))

C16_MalformedFieldsNeverRaise ==
  [][(\/ last'.op = "task" /\ verifyTaskEnvelopeThrows(last'.msg)
      \/ last'.op = "response" /\ verifyTaskResponseThrows(last'.msg)
      \/ /\ last'.op = "cert-exchange"
         /\ (hexToBytesThrows(last'.msg.signature) \/ hexToBytesThrows(last'.msg.owner))) =>
       last'.threw = "none"]_vars

certVerifies(cert) ==
  ~verifyDelegationCertThrows(cert, now) /\ verifyDelegationCert(cert, now)

\* C18: a certificate-exchange message from peer P replaces the cache entry of P
\* when the certificate verifies at that time, and otherwise leaves the cache
\* unchanged; in both cases no other entry changes, nothing is raised and
\* nothing is sent.
C18_CacheHoldsLatestVerifiedCert ==
  [][last'.op = "cert-exchange" =>
       /\ peerCerts' =
            IF certVerifies(last'.msg)
              THEN [peerCerts EXCEPT ![last'.agent] =
                      [p \in DOMAIN @ \cup {last'.peer} |->
                         IF p = last'.peer THEN last'.msg ELSE @[p]]]
              ELSE peerCerts
       /\ last'.threw = "none"
       /\ last'.sent = <<>>
       /\ net' \subseteq net]_vars

(***************************************************************************)
(* Properties of fleet recognition, checked under FleetSpec.               *)
(***************************************************************************)
\* The certificate an agent was constructed with: the argument itself, or
\* the delegation entry of the options it was given.
constructedWith(a) ==
  IF given[a] = NoArgument
    THEN NoDelegation
    ELSE IF "owner" \in DOMAIN given[a] THEN given[a] ELSE field(given[a], "delegation")

unexpired(cert) == cert.expiresAt > now

\* C19: checkFleetSibling(remoteCert) returns false for an agent constructed
\* without a delegation certificate and otherwise what isFleetSibling gives
\* for the agent's certificate and remoteCert; for a certificate received in
\* a certificate exchange it is true when both certificates are unexpired
\* and from the same owner, and false when the owners differ.
C19_CheckFleetSiblingUsesOwnCert ==
  [][last'.op = "checkFleetSibling" =>
       LET a == last'.agent
           remoteCert == last'.args
           localCert == constructedWith(a)
       IN  /\ last'.outcome =
                IF localCert = NoDelegation
                  THEN "false"
                  ELSE isFleetSiblingOutcome(localCert, remoteCert, now)
           /\ localCert # NoDelegation /\ remoteCert \in getPeerCerts(a) =>
                /\ unexpired(localCert) /\ unexpired(remoteCert)
                     /\ localCert.owner = remoteCert.owner
                   => last'.outcome = "true"
                /\ localCert.owner # remoteCert.owner => last'.outcome = "false"]_vars

\* C20: isFleetSibling(certA, certB) gives the same answer for (certB, certA),
\* and the answer is true exactly when certA verifies, certB verifies and
\* their owners are equal, all at the same time; with an expired or badly
\* signed certificate on either side the answer is false, never an exception.
C20_FleetSiblingIsSymmetricConjunction ==
  [][last'.op = "isFleetSibling" =>
       LET certA == last'.args[1]
           certB == last'.args[2]
       IN  /\ last'.outcome \in {"true", "false"}
           /\ last'.outcome = isFleetSiblingOutcome(certB, certA, now)
           /\ last'.outcome = "true" <=>
                /\ certVerifies(certA)
                /\ certVerifies(certB)
                /\ certA.owner = certB.owner]_vars

(***************************************************************************)
(* Properties of the signing functions, checked under CryptoSpec.          *)
(***************************************************************************)
\* C21: verifyDelegationCert returns false for every certificate whose
\* expiresAt is at or before the current time, whatever its signature; so a
\* certificate created with a ttl of zero or less never verifies.
C21_ExpiredCertNeverVerifies ==
  [][last'.op = "verifyDelegationCert" /\ last'.args.expiresAt <= now =>
       last'.outcome = "false"]_vars

\* An expired certificate that verified before it expired has been refused.
C21_Witness ==
  /\ last.op = "verifyDelegationCert"
  /\ last.args.expiresAt <= now
  /\ verifyDelegationCertOutcome(last.args, last.args.issuedAt) = "true"
  /\ last.outcome = "false"

\* C22: every certificate returned by createDelegationCert has
\* expiresAt > issuedAt and expiresAt = issuedAt + ttl, for every scope and ttl.
C22_CertExpiresAfterIssue ==
  [][last'.op = "createDelegationCert" =>
       /\ last'.outcome.expiresAt > last'.outcome.issuedAt
       /\ last'.outcome.expiresAt = last'.outcome.issuedAt + last'.args[3]]_vars

\* C23: what createTaskEnvelope, createTaskResponse and createDelegationCert
\* return verifies (the certificate at every time before its expiresAt), and
\* verify(sign(m, sk), m, pk) is true for the public key pk of sk.
C23_CreateThenVerify ==
  [][/\ last'.op = "createTaskEnvelope" => verifyTaskEnvelopeOutcome(last'.outcome) = "true"
     /\ last'.op = "createTaskResponse" => verifyTaskResponseOutcome(last'.outcome) = "true"
     /\ last'.op = "createDelegationCert" =>
          \A time \in {0, now, last'.outcome.expiresAt - 1} :
            time < last'.outcome.expiresAt =>
              verifyDelegationCertOutcome(last'.outcome, time) = "true"
     /\ last'.op = "sign" =>
          verify(last'.outcome, last'.args[1],
                 getPublicKey(identity[last'.args[2]].secretKey))]_vars

\* An envelope with an object payload was created after the clock moved.
C23_Witness ==
  /\ last.op = "createTaskEnvelope"
  /\ last.outcome.payload = okPayload
  /\ last.outcome.timestamp > 0

\* C24: a signed envelope, response or certificate in which one signed field
\* was given another value, or whose signature was replaced by another
\* well-formed one, does not verify.
C24_AlteredStructureDoesNotVerify ==
  [][last'.op = "verifyAltered" => last'.outcome = "false"]_vars

\* C26: verify returns a boolean for every signature and public key, and
\* false whenever ed.verify raises (wrong length) or fails.
C26_VerifyNeverRaises ==
  [][last'.op = "verify" =>
       LET signature == last'.args[1]
           message == last'.args[2]
           publicKey == last'.args[3]
       IN  /\ last'.outcome \in {"true", "false"}
           /\ edVerifyThrows(signature, publicKey) => last'.outcome = "false"
           /\ ~edVerifyThrows(signature, publicKey)
                /\ ~edVerify(signature, message, publicKey) => last'.outcome = "false"]_vars

\* verify was handed a well-formed signature and a key of the wrong length.
C26_Witness ==
  /\ last.op = "verify"
  /\ last.args[1] # ShortBytes
  /\ last.args[3] = ShortBytes
  /\ last.outcome = "false"

(***************************************************************************)
(* Properties of canonicalize, checked under EncodeSpec.                   *)
(***************************************************************************)
\* What a value is, whatever the order in which its keys were inserted.
RECURSIVE structure(_)
structure(value) ==
  IF value.t = "array"
    THEN [t |-> "array", items |-> [i \in DOMAIN value.items |-> structure(value.items[i])]]
    ELSE IF value.t = "object"
      THEN [t |-> "object",
            members |-> [k \in keySet(value.entries) |-> structure(get(value.entries, k))]]
      ELSE value

\* Every object of the value lists its keys in ascending code-unit order.
RECURSIVE emittedInOrder(_)
emittedInOrder(value) ==
  IF value.t = "array"
    THEN \A i \in DOMAIN value.items : emittedInOrder(value.items[i])
    ELSE IF value.t = "object"
      THEN LET keys == ownKeys(value.entries)
           IN  /\ \A i, j \in DOMAIN keys : i < j => codeUnitRank[keys[i]] < codeUnitRank[keys[j]]
               /\ \A k \in keySet(value.entries) : emittedInOrder(get(value.entries, k))
      ELSE TRUE

\* C25: two structurally equal values, whatever the insertion order of their
\* keys at any level (objects inside arrays included), have the same
\* canonical bytes; the keys of every object are emitted in sorted order and
\* the text has no white space.
C25_CanonicalBytesIgnoreInsertionOrder ==
  [][last'.op = "canonicalize" =>
       /\ \A other \in EncodeInputs :
            structure(other) = structure(last'.args) =>
              canonicalizeValue(other) = last'.outcome
       /\ emittedInOrder(sortKeysValue(last'.args))
       /\ \A i \in DOMAIN last'.outcome.utf8 : last'.outcome.utf8[i] \notin {" ", "\n", "\t"}]_vars

(***************************************************************************)
(* Properties of the tool registry, checked under RegistrySpec.            *)
(***************************************************************************)
\* C27: nothing is registered at first; each register(tool, handler) returns
\* normally, makes has, getHandler and getTool of tool.name answer with that
\* tool and handler (also when the name was taken) and leaves every other
\* name as it was; at all times has(n) iff getHandler(n) is defined iff
\* getTool(n) is defined, and list() holds one definition per registered name.
C27_RegistryHoldsLatestRegistration ==
  /\ \A a \in Agents, n \in ToolNames : ~has(tools[a], n)
  /\ [][last'.op = "register" =>
          LET before == tools[last'.agent]
              after == tools'[last'.agent]
              tool == last'.args[1]
              handler == last'.args[2]
          IN  /\ last'.outcome = "undefined"
              /\ has(after, tool.name)
              /\ getHandler(after, tool.name) = handler
              /\ getTool(after, tool.name) = tool
              /\ \A n \in ToolNames \ {tool.name} :
                   /\ has(after, n) = has(before, n)
                   /\ getHandler(after, n) = getHandler(before, n)
                   /\ getTool(after, n) = getTool(before, n)
              /\ \A n \in ToolNames :
                   /\ has(after, n) <=> getHandler(after, n) # Undefined
                   /\ has(after, n) <=> getTool(after, n) # Undefined
              /\ {t.name : t \in list(after)} = {n \in ToolNames : has(after, n)}
              /\ Cardinality(list(after)) = Cardinality({n \in ToolNames : has(after, n)})]_vars

\* A name was registered again with another definition and another handler,
\* next to another registered name.
C27_Witness ==
  /\ last.op = "register"
  /\ last.args[1] = [echoTool EXCEPT !.description = "Echoes twice"]
  /\ getHandler(tools[last.agent], "echo") = [function |-> "llmHandler"]
  /\ has(tools[last.agent], "summarize")

(***************************************************************************)
(* Properties of the transport, checked under TransportSpec.               *)
(***************************************************************************)
\* C28: once stop() of a transport has returned, every send() on that
\* transport fails, whether or not the target peer is started.
C28_SendFailsAfterStop ==
  [][last'.op = "send" /\ transportLog[last'.agent].state = "stopped" =>
       last'.outcome = "rejected"]_vars

\* The peers whose transport is started and whose most recent advertise()
\* list names the tool.
advertisers(toolName) ==
  {p \in Agents :
     /\ transportLog[p].state = "started"
     /\ transportLog[p].advertised # NoAdvertisement
     /\ \E t \in transportLog[p].advertised.tools : t.name = toolName}

\* What Agent.start and the two stops leave in the registry: an agent is
\* found by the tools it registered before its start() once start() has
\* returned, and no peer is found once it has stopped.
startAndStopSeenByDiscover ==
  /\ \A a \in Agents :
       /\ ~started[a] /\ started'[a] =>
            \A t \in list(tools[a]) : a \in discoverIn(registry', t.name)
       /\ stopPc[a] = "stopping" /\ stopPc'[a] = "done" =>
            \A toolName \in {"echo", "summarize"} : a \notin discoverIn(registry', toolName)
  /\ last'.op = "stop" =>
       \A toolName \in {"echo", "summarize"} : last'.agent \notin discoverIn(registry', toolName)

C30_ResultNeverPrecedesItsEntry ==
  [][/\ last'.op = "request" /\ last'.sent # <<>> =>
          LET t == last'.msg.taskId
          IN  /\ futures'[t] = resolved(last'.sent[1])
              /\ t \notin pending'[last'.agent]
              /\ timers'[t] = "cleared"
     /\ last'.op = "response" =>
          LET t == last'.msg.taskId
          IN  t \in TaskIds /\ issued(t) /\ last'.agent = requests[t].agent
                /\ ~settled(t) => t \in pending[last'.agent]
     /\ \A t \in TaskIds : issued(t)' /\ ~settled(t)' => inTable(t)']_vars

\* An unknown tool was answered from inside transport.send and the request
\* was resolved with that answer before request() returned.
C30_Witness ==
  /\ last.op = "request"
  /\ last.sent # <<>>
  /\ last.msg.tool = "nonexistent"
  /\ futures[last.msg.taskId] = resolved(last.sent[1])

(***************************************************************************)
(* Timers and table entries of the requesting agent, checked under Spec.   *)
(***************************************************************************)
\* C31: a deadline timer is armed for a task id exactly when the id is in the
\* PendingRequest table of the agent that issued it, and in no other table:
\* a step that removes an entry leaves its timer cleared or fired, a timer
\* that fires removes its entry, and no step leaves an entry without an
\* armed timer.
C31_TimerArmedIffInTable ==
  [][\A t \in TaskIds :
       /\ (timers'[t] = "armed") <=> inTable(t)'
       /\ \A a \in Agents : t \in pending'[a] => issued(t)' /\ requests'[t].agent = a
       /\ inTable(t) /\ ~inTable(t)' => timers'[t] \in {"cleared", "fired"}
       /\ timers[t] = "armed" /\ timers'[t] = "fired" => ~inTable(t)']_vars

\* stop() has just removed an entry and cleared its timer while another
\* request, made after stop() returned, is in the table with its timer armed.
C31_Witness ==
  \E t, u \in TaskIds :
    /\ stopPc["A"] = "done"
    /\ futures[t] = rejected("Agent stopped")
    /\ timers[t] = "cleared"
    /\ ~inTable(t)
    /\ inTable(u)
    /\ timers[u] = "armed"

(***************************************************************************)
(* Properties of the receiving agent while handlers are suspended, checked *)
(* under OverlapSpec.                                                      *)
(***************************************************************************)
\* C32: while handlers of an agent are suspended, its handleMessage still
\* takes every inbound task, result and certificate exchange; each suspended
\* handler can settle whatever the order in which the handlers were invoked,
\* and when one settles, the result sent is the one of its own task and the
\* other invocations stay as they were.
C32_SuspendedHandlerBlocksOnlyItsResult ==
  /\ \A a \in ToolProviders :
       running[a] # {} /\ nInvoked < MaxInvocations =>
         \A bytes \in OverlapBytes : ENABLED Inbound(a, bytes)
  /\ \A a \in ToolProviders : \A r \in running[a] :
       ENABLED (/\ HandlerSettled(a, r, "return", "delivered", "delivered")
                /\ running'[a] = running[a] \ {r}
                /\ last'.sent[1].taskId = r.envelope.taskId)

\* The handler invoked first is still suspended; the result of a task that
\* arrived later has just been sent, and a certificate was stored meanwhile.
C32_Witness ==
  /\ last.op = "handlerSettled"
  /\ last.msg.taskId = 1
  /\ last.sent[1].taskId = 1
  /\ \E r \in running["B"] : r.n = 1 /\ r.envelope.taskId = 0
  /\ Outsider \in DOMAIN peerCerts["B"]

(***************************************************************************)
(* Properties of validatePayload, checked under ValidateSpec.              *)
(***************************************************************************)
\* a non-null, non-array object
isPlainObject(v) == v.type = "object"

\* The value has the declared type; a declared integer is held by a number,
\* and a declared object by whatever typeof calls an object and is no array.
matchesDeclared(type, v) ==
  IF type = "integer" THEN v.type = "number"
  ELSE IF type = "array" THEN v.type = "array"
  ELSE IF type = "object" THEN v.type \in {"object", "null"}
  ELSE v.type = type

declaresType(tool, key) ==
  /\ "properties" \in DOMAIN tool.parameters
  /\ key \in DOMAIN tool.parameters.properties
  /\ "type" \in DOMAIN tool.parameters.properties[key]

requiredKeys(tool) ==
  IF "parameters" \in DOMAIN tool /\ "required" \in DOMAIN tool.parameters
    THEN {tool.parameters.required[i] : i \in DOMAIN tool.parameters.required}
    ELSE {}

shapeMatches(tool, payload) ==
  /\ isPlainObject(payload)
  /\ \A key \in requiredKeys(tool) :
       /\ key \in DOMAIN payload.fields
       /\ declaresType(tool, key) =>
            matchesDeclared(tool.parameters.properties[key].type, payload.fields[key])

\* C33: for a tool other than the standard LLM-message one, validatePayload
\* answers valid exactly when the payload is a non-null, non-array object in
\* which every required key is present with a value of its declared type, a
\* declared integer being held by a number; a rejection carries an error that
\* names the violation: the payload not being an object, or the field at
\* fault.
C33_ValidIffShapeMatches ==
  [][last'.op = "validatePayload" /\ last'.args[1].name # LLM_MESSAGE_TOOL_NAME =>
       LET tool == last'.args[1]
           payload == last'.args[2]
           outcome == last'.outcome
       IN  /\ outcome.valid <=> shapeMatches(tool, payload)
           /\ ~outcome.valid =>
                IF isPlainObject(payload)
                  THEN outcome.error[2] \in requiredKeys(tool)
                  ELSE outcome.error = <<"Payload must be an object">>]_vars

(***************************************************************************)
(* Properties of the requesting agent under fair scheduling, checked under *)
(* FairSpec.                                                               *)
(***************************************************************************)
\* C34: every call of request() eventually resolves or rejects, whatever the
\* peers send: no request is ever left with its future unsettled, its table
\* entry gone and its timer no longer armed.
C34_EveryRequestSettles ==
  /\ [](\A t \in TaskIds : issued(t) /\ ~settled(t) => inTable(t) /\ timers[t] = "armed")
  /\ \A t \in TaskIds : issued(t) ~> settled(t)

(***************************************************************************)
(* Who may settle a request, checked under IntruderSpec.                   *)
(***************************************************************************)
\* the result names the agent at the peer address as its producer
producedBy(response, peer) ==
  field(response, "from") = bytesToHex(identity[peer].publicKey)

\* C35: a request sent to peer P is settled only by a result produced by P
\* and delivered by P: the handling of a result with the request's task id
\* that names another producer, or that another peer delivered, leaves the
\* future of the request as it was.
C35_OnlyThePeerSettles ==
  [][last'.op = "response" /\ last'.msg.taskId \in TaskIds =>
       LET t == last'.msg.taskId
       IN  issued(t) /\ (last'.peer # requests[t].peer
                           \/ ~producedBy(last'.msg, requests[t].peer)) =>
             futures'[t] = futures[t]]_vars

(***************************************************************************)
(* Results per task, checked under InboundSpec.                            *)
(***************************************************************************)
\* C36: for one inbound task envelope the receiver hands at most one result
\* message to transport.send: an error reply when a check fails, or one
\* result when the handler has settled, and no second, error result when the
\* send of the handler's result fails.
C36_AtMostOneResultPerTask ==
  [][last'.op \in {"task", "handlerSettled", "handlerFailed"} =>
       /\ Len(last'.sent) <= 1
       /\ \A i \in DOMAIN last'.sent : last'.sent[i].taskId = last'.msg.taskId]_vars

(***************************************************************************)
(* Fleet recognition against the clock, checked under FleetSpec.           *)
(***************************************************************************)
\* C37: checkFleetSibling reads the clock on every call: for an agent
\* constructed with a certificate, once the time has reached the expiry of
\* that certificate or of the remote one, the answer is false, also for a
\* certificate that verified when it was stored in peerCerts and is still
\* held there.
C37_ExpiredCertIsNeverSibling ==
  [][last'.op = "checkFleetSibling" =>
       LET localCert == constructedWith(last'.agent)
           remoteCert == last'.args
       IN  localCert # NoDelegation
             /\ (expired(localCert, now') \/ expired(remoteCert, now'))
           => last'.outcome = "false"]_vars

(***************************************************************************)
(* Whose certificates the cache holds, checked under PresentSpec.          *)
(***************************************************************************)
\* the certificate binds the public key of the agent at the peer address
issuedTo(cert, peer) == field(cert, "agent") = bytesToHex(identity[peer].publicKey)

\* C38: every certificate held in peerCerts under a peer address was issued
\* to the agent at that address, so that no peer is reported as a fleet
\* sibling on the strength of a certificate issued to another agent.
C38_CachedCertWasIssuedToItsPeer ==
  [][/\ \A a \in Agents : \A p \in DOMAIN peerCerts'[a] : issuedTo(peerCerts'[a][p], p)
     /\ last'.op = "checkFleetSibling" /\ last'.outcome = "true" =>
          \A p \in DOMAIN peerCerts[last'.agent] :
            peerCerts[last'.agent][p] = last'.args => issuedTo(last'.args, p)]_vars

(***************************************************************************)
(* Copies of one task envelope, checked under OverlapSpec.                 *)
(***************************************************************************)
\* C39: the receiver remembers no task id: every delivery of a verifying
\* envelope for a registered tool with a valid payload, whoever delivers it
\* and however often it was delivered before, invokes the handler once more;
\* every invocation that returns produces one more verifying result with the
\* envelope's task id and the handler's value, and whatever is handed to the
\* transport then is addressed to the peer that delivered the copy, not to
\* the agent named in envelope.from.
C39_EveryCopyIsHandled ==
  [][/\ last'.op = "task" /\ envelopeVerifies(last'.msg)
          /\ has(tools[last'.agent], last'.msg.tool)
          /\ validatePayload(tools[last'.agent][last'.msg.tool].tool, last'.msg.payload).valid
        => /\ nInvoked' = nInvoked + 1
           /\ \E r \in running'[last'.agent] \ running[last'.agent] :
                /\ r.envelope = last'.msg
                /\ r.peer = last'.peer
                /\ running'[last'.agent] = running[last'.agent] \cup {r}
     /\ last'.op = "handlerSettled"
        => \E r \in running[last'.agent] \ running'[last'.agent] :
             /\ r.envelope = last'.msg
             /\ r.peer = last'.peer
             /\ last'.sent[1].taskId = r.envelope.taskId
             /\ signedBy(last'.sent[1], last'.agent)
             /\ Cardinality({i \in DOMAIN last'.sent :
                               last'.sent[i].result =
                                 handlerResult(r.handler, r.envelope.payload)}) = 1
             /\ \A m \in net' \ net : m.to = r.peer]_vars

\* The envelope signed by A was delivered twice, once by A and once by the
\* outside peer, and the handler ran twice: the result of the copy A
\* delivered is on its way to A, and the result of the other copy has just
\* been handed to the transport for the outside peer.
C39_Witness ==
  /\ nInvoked = 2
  /\ last.op = "handlerSettled"
  /\ last.peer = Outsider
  /\ last.msg.from = bytesToHex(identity["A"].publicKey)
  /\ last.sent[1].taskId = last.msg.taskId
  /\ \E m \in net :
       /\ m.to = "A"
       /\ m.from = "B"
       /\ JSONparse(m.bytes).type = "response"
       /\ JSONparse(m.bytes).response.taskId = last.msg.taskId

(***************************************************************************)
(* The lifecycle of an agent, checked under LifecycleSpec.                 *)
(***************************************************************************)
\* start() ran to its end on the agent and a later stop() has returned
stoppedAfterStart(a) == started[a] /\ transportLog[a].state = "stopped"

\* C40: the started flag of an agent is never cleared; a start() on an agent
\* whose flag is set makes no call on the transport: the registry and what
\* the transport was last told stay as they were; so once an agent that was
\* started has been stopped, it stays out of the registry whatever is
\* called, discover never returns it and a send to it is rejected.
C40_StartOnlyOnce ==
  [][/\ \A a \in Agents : started[a] => started'[a]
     /\ last'.op = "start" /\ started[last'.agent] =>
          /\ last'.outcome = "already started"
          /\ registry' = registry
          /\ transportLog' = transportLog
     /\ \A a \in Agents : stoppedAfterStart(a) =>
          /\ stoppedAfterStart(a)'
          /\ a \notin DOMAIN registry'
          /\ transportLog'[a] = transportLog[a]
          /\ last'.op = "discover" => a \notin last'.outcome
          /\ last'.op = "send" /\ last'.args = a => last'.outcome = "rejected"]_vars

\* An agent that advertised the echo tool was stopped, and start() has just
\* been called on it again: it is still out of the registry.
C40_Witness ==
  /\ last.op = "start"
  /\ last.outcome = "already started"
  /\ stoppedAfterStart(last.agent)
  /\ transportLog[last.agent].advertised = [tools |-> {echoTool}]
  /\ last.agent \notin DOMAIN registry

====
